---------------------------- MODULE Spec2Model ----------------------------
(***************************************************************************)
(* A model of the phosphor terminal core: the VTE-driven escape-sequence   *)
(* parser (phosphor-parser), the terminal state engine (phosphor-core      *)
(* terminal/ and ansi.rs) and the I/O coordinator (Terminal::run with the  *)
(* PtyManager and the EventBus).                                           *)
(*                                                                         *)
(* Rust values are modelled as follows.  Option<T> is a sequence of length *)
(* 0 (None) or 1 (Some).  u16 values are naturals with the saturating and  *)
(* wrapping operators below.  A char or a byte is its code point.  Vec<T>  *)
(* and VecDeque<T> are sequences; Rust index i is TLA+ index i + 1.        *)
(***************************************************************************)
EXTENDS Integers, Sequences, FiniteSets, TLC

(***************************************************************************)
(* Bounds of the model.                                                    *)
(***************************************************************************)
MaxBytes == 4
MaxStream == 5
MaxOps == 4
MaxDim == 2
MaxText == 6
MaxCap == 2
MaxScreenOps == 3
MaxCursorOps == 5
MaxExtCmds == 2
MaxReads == 1
MaxReadCalls == 2
MaxTabOps == 4
MaxEraseOps == 4
TickLimit == 1

(***************************************************************************)
(* Program constants.                                                      *)
(***************************************************************************)
U16Max == 65535
TabWidth == 8
DefaultMaxLines == 10000

Min(a, b) == IF a < b THEN a ELSE b

saturating_add(a, n) == IF a + n > U16Max THEN U16Max ELSE a + n
saturating_sub(a, n) == IF a < n THEN 0 ELSE a - n
\* a - b on u16 as a release build computes it (two's complement wrap)
wrapping_sub(a, b) == (a - b + U16Max + 1) % (U16Max + 1)

None == << >>
Some(x) == << x >>

(***************************************************************************)
(* phosphor-common types.rs                                                *)
(***************************************************************************)
Size_new(cols, rows) == [rows |-> rows, cols |-> cols]
Position_new(row, col) == [row |-> row, col |-> col]

CellAttributes_default ==
    [fg_color |-> <<"Default">>, bg_color |-> <<"Default">>,
     flags |-> {}, underline_color |-> None]

Cell_with_attrs(ch, attrs) == [ch |-> ch, attrs |-> attrs, hyperlink |-> None]
Cell_new(ch) == Cell_with_attrs(ch, CellAttributes_default)
Cell_blank == Cell_new(32)

TerminalMode_default == {"LINE_WRAP", "CURSOR_VISIBLE", "ECHO"}

AnsiNames ==
    << "Black", "Red", "Green", "Yellow", "Blue", "Magenta", "Cyan", "White",
       "BrightBlack", "BrightRed", "BrightGreen", "BrightYellow",
       "BrightBlue", "BrightMagenta", "BrightCyan", "BrightWhite" >>

Color_from_ansi(index) ==
    IF index < 16 THEN << AnsiNames[index + 1] >> ELSE << "Indexed", index >>

(***************************************************************************)
(* terminal/buffer.rs : ScreenBuffer                                       *)
(***************************************************************************)
\* a sequence given by a function constructor, held element by element as
\* a Vec holds it
AsVec(f) == SubSeq(f, 1, Len(f))

BlankLine(cols) == AsVec([c \in 1..cols |-> Cell_blank])

ScreenBuffer_new(size) ==
    [lines |-> AsVec([r \in 1..size.rows |-> BlankLine(size.cols)]),
     size |-> size]

set_cell(buf, pos, cell) ==
    IF pos.row < buf.size.rows /\ pos.col < buf.size.cols
    THEN [buf EXCEPT !.lines[pos.row + 1][pos.col + 1] = cell]
    ELSE buf

get_cell(buf, pos) ==
    IF pos.row < buf.size.rows /\ pos.col < buf.size.cols
    THEN buf.lines[pos.row + 1][pos.col + 1]
    ELSE Cell_blank

\* the pair << Option<line>, buffer after the removal >>
remove_top_line(buf) ==
    IF Len(buf.lines) > 0
    THEN << Some(Head(buf.lines)), [buf EXCEPT !.lines = Tail(buf.lines)] >>
    ELSE << None, buf >>

add_blank_line(buf) ==
    [buf EXCEPT !.lines = Append(buf.lines, BlankLine(buf.size.cols))]

\* clear that leaves the first row as it is
ScreenBuffer_clear_below_first(buf) ==
    [buf EXCEPT !.lines =
        AsVec([r \in 1..Len(buf.lines) |->
                 IF r = 1 THEN buf.lines[r]
                 ELSE BlankLine(Len(buf.lines[r]))])]

ScreenBuffer_clear(buf) ==
    [buf EXCEPT !.lines =
        AsVec([r \in 1..Len(buf.lines) |-> BlankLine(Len(buf.lines[r]))])]

\* resize that rebuilds the buffer blank instead of keeping the old cells
ScreenBuffer_resize_blank(buf, new_size) ==
    [lines |-> AsVec([r \in 1..new_size.rows |-> BlankLine(new_size.cols)]),
     size |-> new_size]

ScreenBuffer_resize(buf, new_size) ==
    LET fit(line) ==
            IF new_size.cols > buf.size.cols
            THEN line \o BlankLine(new_size.cols - buf.size.cols)
            ELSE IF new_size.cols < buf.size.cols
                 THEN SubSeq(line, 1, Min(Len(line), new_size.cols))
                 ELSE line
        cols_done == AsVec([r \in 1..Len(buf.lines) |-> fit(buf.lines[r])])
        rows_done ==
            IF new_size.rows > buf.size.rows
            THEN cols_done \o
                 AsVec([r \in 1..(new_size.rows - buf.size.rows) |->
                           BlankLine(new_size.cols)])
            ELSE IF new_size.rows < buf.size.rows
                 THEN SubSeq(cols_done, 1, Min(Len(cols_done), new_size.rows))
                 ELSE cols_done
    IN  [lines |-> rows_done, size |-> new_size]

\* ScreenBuffer::clear_cell, insert_blank_line and remove_bottom_line are
\* called by ansi.rs and state.rs but their bodies are not in buffer.rs;
\* they are modelled from the specification's description of the buffer
\* (out-of-bounds writes are no-ops, a cleared cell is the default blank).
clear_cell(buf, pos) == set_cell(buf, pos, Cell_blank)

insert_blank_line(buf, row) ==
    IF row <= Len(buf.lines)
    THEN [buf EXCEPT !.lines =
            SubSeq(buf.lines, 1, row) \o << BlankLine(buf.size.cols) >>
            \o SubSeq(buf.lines, row + 1, Len(buf.lines))]
    ELSE buf

remove_bottom_line(buf) ==
    IF Len(buf.lines) > 0
    THEN [buf EXCEPT !.lines = SubSeq(buf.lines, 1, Len(buf.lines) - 1)]
    ELSE buf

(***************************************************************************)
(* terminal/buffer.rs : ScrollbackBuffer                                   *)
(***************************************************************************)
ScrollbackBuffer_new(max_lines) == [lines |-> << >>, max_lines |-> max_lines]

\* push that makes room by dropping the newest line instead of the oldest
ScrollbackBuffer_push_dropping_newest(sb, line) ==
    LET kept == IF Len(sb.lines) >= sb.max_lines /\ Len(sb.lines) > 0
                THEN SubSeq(sb.lines, 1, Len(sb.lines) - 1) ELSE sb.lines
    IN  [sb EXCEPT !.lines = Append(kept, line)]

ScrollbackBuffer_push(sb, line) ==
    LET kept == IF Len(sb.lines) >= sb.max_lines /\ Len(sb.lines) > 0
                THEN Tail(sb.lines) ELSE sb.lines
    IN  [sb EXCEPT !.lines = Append(kept, line)]

\* Option<&Vec<Cell>>: VecDeque::get(index)
get_line(sb, index) ==
    IF index < Len(sb.lines) THEN Some(sb.lines[index + 1]) ELSE None

ScrollbackBuffer_clear(sb) == [sb EXCEPT !.lines = << >>]

(***************************************************************************)
(* terminal/cursor.rs                                                      *)
(***************************************************************************)
Cursor_new ==
    [position |-> Position_new(0, 0), saved_position |-> None, visible |-> TRUE]

set_row(cur, row) == [cur EXCEPT !.position.row = row]
set_column(cur, col) == [cur EXCEPT !.position.col = col]
move_up(cur, n) == [cur EXCEPT !.position.row = saturating_sub(@, n)]
move_down(cur, n) == [cur EXCEPT !.position.row = saturating_add(@, n)]
move_left(cur, n) == [cur EXCEPT !.position.col = saturating_sub(@, n)]
move_right(cur, n) == [cur EXCEPT !.position.col = saturating_add(@, n)]
saturating_left(cur) == [cur EXCEPT !.position.col = saturating_sub(@, 1)]


(***************************************************************************)
(* terminal/state.rs : TerminalState                                       *)
(***************************************************************************)
RECURSIVE StepBy(_, _, _)
\* (from..to).step_by(step) collected into a Vec
StepBy(from, to, step) ==
    IF from >= to THEN << >> ELSE << from >> \o StepBy(from + step, to, step)

default_tab_stops(cols) == StepBy(0, cols, TabWidth)

TerminalState_new(size) ==
    [size |-> size,
     cursor |-> Cursor_new,
     saved_cursor |-> None,
     screen_buffer |-> ScreenBuffer_new(size),
     alternate_buffer |-> None,
     scrollback_buffer |-> ScrollbackBuffer_new(DefaultMaxLines),
     mode |-> TerminalMode_default,
     cursor_style |-> "Block",
     active_attributes |-> CellAttributes_default,
     tab_stops |-> default_tab_stops(size.cols)]

scroll_up(st) ==
    LET r == remove_top_line(st.screen_buffer)
        sb == IF r[1] # None
              THEN ScrollbackBuffer_push(st.scrollback_buffer, r[1][1])
              ELSE st.scrollback_buffer
    IN  [st EXCEPT !.scrollback_buffer = sb,
                   !.screen_buffer = add_blank_line(r[2])]

scroll_down(st) ==
    [st EXCEPT !.screen_buffer =
        remove_bottom_line(insert_blank_line(st.screen_buffer, 0))]

\* advance_cursor that wraps without scrolling: after a wrap on the last row
\* the cursor is left on the row below the screen
advance_cursor_without_scroll(st) ==
    IF st.size.rows = 0 \/ st.size.cols = 0 THEN st
    ELSE
    LET s1 == [st EXCEPT !.cursor = move_right(@, 1)]
    IN  IF s1.cursor.position.col >= s1.size.cols
        THEN IF "LINE_WRAP" \in s1.mode
             THEN [s1 EXCEPT !.cursor = move_down(set_column(@, 0), 1)]
             ELSE [s1 EXCEPT
                     !.cursor = set_column(@, saturating_sub(s1.size.cols, 1))]
        ELSE s1

advance_cursor(st) ==
    IF st.size.rows = 0 \/ st.size.cols = 0 THEN st
    ELSE
    LET s1 == [st EXCEPT !.cursor = move_right(@, 1)]
    IN  IF s1.cursor.position.col >= s1.size.cols
        THEN IF "LINE_WRAP" \in s1.mode
             THEN LET s2 == [s1 EXCEPT !.cursor = move_down(set_column(@, 0), 1)]
                  IN  IF s2.cursor.position.row >= s2.size.rows
                      THEN [scroll_up(s2) EXCEPT
                              !.cursor = set_row(@, saturating_sub(s2.size.rows, 1))]
                      ELSE s2
             ELSE [s1 EXCEPT !.cursor = set_column(@, saturating_sub(s1.size.cols, 1))]
        ELSE s1

\* new_line that scrolls as soon as the cursor leaves the last row
new_line_scrolling_at_once(st) ==
    LET s1 == [st EXCEPT !.cursor = move_down(@, 1)]
    IN  IF s1.cursor.position.row >= s1.size.rows
        THEN [scroll_up(s1) EXCEPT
                !.cursor = set_row(@, saturating_sub(s1.size.rows, 1))]
        ELSE s1

new_line(st) == [st EXCEPT !.cursor = move_down(@, 1)]

carriage_return(st) == [st EXCEPT !.cursor = set_column(@, 0)]

\* the first element of stops greater than col, as Vec::iter().find does
RECURSIVE FindStop(_, _)
FindStop(stops, col) ==
    IF stops = << >> THEN None
    ELSE IF Head(stops) > col THEN Some(Head(stops))
    ELSE FindStop(Tail(stops), col)

tab(st) ==
    LET found == FindStop(st.tab_stops, st.cursor.position.col)
        next_tab == IF found # None THEN found[1]
                    ELSE wrapping_sub(st.size.cols, 1)
    IN  [st EXCEPT !.cursor = set_column(@, next_tab)]

backspace(st) ==
    LET s1 == [st EXCEPT !.cursor = saturating_left(@)]
        s2 == advance_cursor(s1)
        s3 == [s2 EXCEPT !.screen_buffer =
                 set_cell(@, s2.cursor.position,
                          Cell_with_attrs(32, s2.active_attributes))]
    IN  [s3 EXCEPT !.cursor = saturating_left(@)]

write_char(st, ch) ==
    CASE ch = 10 -> new_line(st)
      [] ch = 13 -> carriage_return(st)
      [] ch = 9  -> tab(st)
      [] ch = 8  -> backspace(st)
      [] ch = 0  -> st
      [] OTHER ->
         IF st.size.rows = 0 \/ st.size.cols = 0 THEN st
         ELSE
         LET s1 == IF st.cursor.position.row >= st.size.rows
                   THEN [scroll_up(st) EXCEPT
                           !.cursor = set_row(@, saturating_sub(st.size.rows, 1))]
                   ELSE st
             s2 == [s1 EXCEPT !.screen_buffer =
                      set_cell(@, s1.cursor.position,
                               Cell_with_attrs(ch, s1.active_attributes))]
         IN  advance_cursor(s2)

RECURSIVE write_str(_, _)
write_str(st, s) ==
    IF s = << >> THEN st ELSE write_str(write_char(st, Head(s)), Tail(s))

set_attribute_flag(st, flag, enabled) ==
    [st EXCEPT !.active_attributes.flags =
        IF enabled THEN @ \cup {flag} ELSE @ \ {flag}]

set_foreground_color(st, color) == [st EXCEPT !.active_attributes.fg_color = color]
set_background_color(st, color) == [st EXCEPT !.active_attributes.bg_color = color]
set_underline_color(st, color) == [st EXCEPT !.active_attributes.underline_color = color]
reset_attributes(st) == [st EXCEPT !.active_attributes = CellAttributes_default]

TerminalState_resize(st, new_size) ==
    LET pos == st.cursor.position
    IN  [st EXCEPT
          !.size = new_size,
          !.screen_buffer = ScreenBuffer_resize(@, new_size),
          !.tab_stops = default_tab_stops(new_size.cols),
          !.cursor.position =
              Position_new(Min(pos.row, saturating_sub(new_size.rows, 1)),
                           Min(pos.col, saturating_sub(new_size.cols, 1)))]

cursor_position(st) ==
    Position_new(Min(st.cursor.position.row, saturating_sub(st.size.rows, 1)),
                 Min(st.cursor.position.col, saturating_sub(st.size.cols, 1)))

set_cursor_position(st, pos) == [st EXCEPT !.cursor.position = pos]

set_tab_stop(st) ==
    LET col == st.cursor.position.col
        lower == SelectSeq(st.tab_stops, LAMBDA x : x < col)
        upper == SelectSeq(st.tab_stops, LAMBDA x : x > col)
    IN  IF \E i \in 1..Len(st.tab_stops) : st.tab_stops[i] = col THEN st
        ELSE [st EXCEPT !.tab_stops = lower \o << col >> \o upper]

ModeFlag ==
    [Insert |-> "INSERT_MODE", AutoWrap |-> "LINE_WRAP",
     BracketedPaste |-> "BRACKETED_PASTE", FocusReporting |-> "FOCUS_REPORTING",
     MouseReporting |-> "MOUSE_REPORTING", ApplicationCursor |-> "APPLICATION_CURSOR",
     ApplicationKeypad |-> "APPLICATION_KEYPAD", OriginMode |-> "ORIGIN_MODE"]

set_mode_flag(st, mode, enabled) ==
    IF mode \in DOMAIN ModeFlag
    THEN [st EXCEPT !.mode = IF enabled THEN @ \cup {ModeFlag[mode]}
                                        ELSE @ \ {ModeFlag[mode]}]
    ELSE st

set_cursor_visible(st, visible) ==
    [st EXCEPT !.mode = IF visible THEN @ \cup {"CURSOR_VISIBLE"}
                                   ELSE @ \ {"CURSOR_VISIBLE"}]

\* enable_alternate_screen without the is_none test: a second enable saves
\* the alternate screen over the primary
enable_alternate_screen_unguarded(st) ==
    [st EXCEPT !.alternate_buffer = Some(st.screen_buffer),
               !.screen_buffer = ScreenBuffer_new(st.size),
               !.mode = @ \cup {"ALTERNATE_SCREEN"}]

enable_alternate_screen(st) ==
    IF st.alternate_buffer = None
    THEN [st EXCEPT !.alternate_buffer = Some(st.screen_buffer),
                    !.screen_buffer = ScreenBuffer_new(st.size),
                    !.mode = @ \cup {"ALTERNATE_SCREEN"}]
    ELSE st

\* disable_alternate_screen that drops the saved buffer without swapping it
\* back into screen_buffer
disable_without_swap(st) ==
    IF st.alternate_buffer # None
    THEN [st EXCEPT !.alternate_buffer = None,
                    !.mode = @ \ {"ALTERNATE_SCREEN"}]
    ELSE st

disable_alternate_screen(st) ==
    IF st.alternate_buffer # None
    THEN [st EXCEPT !.screen_buffer = st.alternate_buffer[1],
                    !.alternate_buffer = None,
                    !.mode = @ \ {"ALTERNATE_SCREEN"}]
    ELSE st

save_cursor(st) == [st EXCEPT !.saved_cursor = Some(st.cursor)]

\* restore_cursor that forgets the saved cursor without moving to it
restore_cursor_without_move(st) == [st EXCEPT !.saved_cursor = None]

restore_cursor(st) ==
    IF st.saved_cursor # None
    THEN [st EXCEPT !.cursor = st.saved_cursor[1], !.saved_cursor = None]
    ELSE st

snapshot(st) ==
    [size |-> st.size, cursor |-> st.cursor.position, mode |-> st.mode,
     cursor_style |-> st.cursor_style,
     active_attributes |-> st.active_attributes,
     alternate_screen_active |-> st.alternate_buffer # None]

(***************************************************************************)
(* ansi.rs : AnsiProcessor.  A ParsedEvent is a tuple whose first element  *)
(* is the variant: <<"Text", chars>>, <<"Control", name>>,                 *)
(* <<"Csi", name, args...>>, <<"Osc", name>>, <<"Esc", name>>.             *)
(* An SgrParameter is a tuple <<name>> or <<name, color>>.                 *)
(***************************************************************************)
SgrSetFlag ==
    [Bold |-> "BOLD", Dim |-> "DIM", Italic |-> "ITALIC",
     Underline |-> "UNDERLINE", Blink |-> "BLINK_SLOW", Reverse |-> "REVERSE",
     Hidden |-> "HIDDEN", Strikethrough |-> "STRIKETHROUGH"]

SgrClearFlags ==
    [NoBold |-> {"BOLD", "DIM"}, NoDim |-> {"DIM"}, NoItalic |-> {"ITALIC"},
     NoUnderline |-> {"UNDERLINE"}, NoBlink |-> {"BLINK_SLOW", "BLINK_FAST"},
     NoReverse |-> {"REVERSE"}, NoHidden |-> {"HIDDEN"},
     NoStrikethrough |-> {"STRIKETHROUGH"}]

apply_sgr(st, param) ==
    LET name == param[1]
    IN  CASE name = "Reset" -> reset_attributes(st)
          [] name \in DOMAIN SgrSetFlag -> set_attribute_flag(st, SgrSetFlag[name], TRUE)
          [] name \in DOMAIN SgrClearFlags ->
                [st EXCEPT !.active_attributes.flags = @ \ SgrClearFlags[name]]
          [] name = "Foreground" -> set_foreground_color(st, param[2])
          [] name = "Background" -> set_background_color(st, param[2])
          [] name = "UnderlineColor" -> set_underline_color(st, Some(param[2]))
          [] name = "DefaultForeground" -> set_foreground_color(st, <<"Default">>)
          [] name = "DefaultBackground" -> set_background_color(st, <<"Default">>)
          [] name = "DefaultUnderlineColor" -> set_underline_color(st, None)
          [] OTHER -> st

RECURSIVE apply_sgr_all(_, _)
apply_sgr_all(st, params) ==
    IF params = << >> THEN st
    ELSE apply_sgr_all(apply_sgr(st, Head(params)), Tail(params))

\* the cells (row, col) visited by the loops of clear_screen / clear_line,
\* cleared one after the other
RECURSIVE ClearCells(_, _)
ClearCells(buf, cells) ==
    IF cells = {} THEN buf
    ELSE LET p == CHOOSE q \in cells : TRUE
         IN  ClearCells(clear_cell(buf, Position_new(p[1], p[2])), cells \ {p})

\* clear_screen whose Below clears the cursor row from column 0 and whose
\* Above stops before the cursor cell
clear_screen_whole_cursor_row(st, mode) ==
    LET size == st.size
        cursor_pos == cursor_position(st)
    IN  CASE mode = "Below" ->
               [st EXCEPT !.screen_buffer = ClearCells(@,
                   (cursor_pos.row .. size.rows - 1) \X (0 .. size.cols - 1))]
          [] mode = "Above" ->
               [st EXCEPT !.screen_buffer = ClearCells(@,
                   {<<row, col>> \in (0 .. cursor_pos.row) \X (0 .. size.cols - 1) :
                       ~(row = cursor_pos.row /\ col >= cursor_pos.col)})]
          [] mode = "All" ->
               [st EXCEPT !.screen_buffer = ScreenBuffer_clear(@)]
          [] mode = "Saved" ->
               [st EXCEPT !.scrollback_buffer = ScrollbackBuffer_clear(@)]

clear_screen(st, mode) ==
    LET size == st.size
        cursor_pos == cursor_position(st)
    IN  CASE mode = "Below" ->
               [st EXCEPT !.screen_buffer = ClearCells(@,
                   {<<row, col>> \in (cursor_pos.row .. size.rows - 1) \X (0 .. size.cols - 1) :
                       ~(row = cursor_pos.row /\ col < cursor_pos.col)})]
          [] mode = "Above" ->
               [st EXCEPT !.screen_buffer = ClearCells(@,
                   {<<row, col>> \in (0 .. cursor_pos.row) \X (0 .. size.cols - 1) :
                       ~(row = cursor_pos.row /\ col > cursor_pos.col)})]
          [] mode = "All" ->
               [st EXCEPT !.screen_buffer = ScreenBuffer_clear(@)]
          [] mode = "Saved" ->
               [st EXCEPT !.scrollback_buffer = ScrollbackBuffer_clear(@)]

clear_line(st, mode) ==
    LET cursor_pos == cursor_position(st)
        cols == st.size.cols
        span == CASE mode = "Below" -> cursor_pos.col .. cols - 1
                  [] mode = "Above" -> 0 .. cursor_pos.col
                  [] OTHER -> 0 .. cols - 1
    IN  [st EXCEPT !.screen_buffer =
            ClearCells(@, {<<cursor_pos.row, col>> : col \in span})]

set_mode(st, mode, enabled) ==
    CASE mode = "CursorVisible" -> set_cursor_visible(st, enabled)
      [] mode = "AlternateScreen" ->
            IF enabled THEN enable_alternate_screen(st)
                       ELSE disable_alternate_screen(st)
      [] mode \in {"Insert", "AutoWrap", "BracketedPaste", "FocusReporting",
                   "MouseReporting", "ApplicationCursor", "OriginMode"} ->
            set_mode_flag(st, mode, enabled)
      [] OTHER -> st

RECURSIVE set_mode_all(_, _, _)
set_mode_all(st, modes, enabled) ==
    IF modes = << >> THEN st
    ELSE set_mode_all(set_mode(st, Head(modes), enabled), Tail(modes), enabled)

RECURSIVE Repeat(_, _, _)
\* for _ in 0..n { st = f(st) }
Repeat(f(_), st, n) == IF n = 0 THEN st ELSE Repeat(f, f(st), n - 1)

process_control(st, control) ==
    CASE control = "NewLine" -> write_char(st, 10)
      [] control = "CarriageReturn" -> write_char(st, 13)
      [] control = "Tab" -> write_char(st, 9)
      [] control = "Backspace" -> write_char(st, 8)
      [] control = "Bell" -> st
      [] control = "FormFeed" -> clear_screen(st, "All")
      [] control = "VerticalTab" -> write_char(st, 10)
      [] control = "Clear" -> clear_screen(st, "All")

process_csi(st, csi) ==
    LET name == csi[2]
    IN  CASE name = "CursorUp" -> [st EXCEPT !.cursor = move_up(@, csi[3])]
          [] name = "CursorDown" -> [st EXCEPT !.cursor = move_down(@, csi[3])]
          [] name = "CursorForward" -> [st EXCEPT !.cursor = move_right(@, csi[3])]
          [] name = "CursorBack" -> [st EXCEPT !.cursor = move_left(@, csi[3])]
          [] name = "CursorPosition" ->
                set_cursor_position(st,
                    Position_new(saturating_sub(csi[3], 1), saturating_sub(csi[4], 1)))
          [] name = "CursorColumn" ->
                [st EXCEPT !.cursor = set_column(@, saturating_sub(csi[3], 1))]
          [] name = "CursorNextLine" ->
                [st EXCEPT !.cursor = move_down(set_column(@, 0), csi[3])]
          [] name = "CursorPreviousLine" ->
                [st EXCEPT !.cursor = move_up(set_column(@, 0), csi[3])]
          [] name = "EraseDisplay" -> clear_screen(st, csi[3])
          [] name = "EraseLine" -> clear_line(st, csi[3])
          [] name = "ScrollUp" -> Repeat(scroll_up, st, csi[3])
          [] name = "ScrollDown" -> Repeat(scroll_down, st, csi[3])
          [] name = "SetGraphicsRendition" -> apply_sgr_all(st, csi[3])
          [] name = "ShowCursor" -> set_cursor_visible(st, TRUE)
          [] name = "HideCursor" -> set_cursor_visible(st, FALSE)
          [] name = "SetMode" -> set_mode_all(st, csi[3], TRUE)
          [] name = "ResetMode" -> set_mode_all(st, csi[3], FALSE)
          [] name = "SaveCursor" -> save_cursor(st)
          [] name = "RestoreCursor" -> restore_cursor(st)
          [] name \in {"DeviceStatusReport", "CursorPositionReport"} -> st

process_osc(st, osc) == st

\* process_esc whose Reset builds a new state but keeps the scrollback
process_esc_reset_keeping_scrollback(st, esc) ==
    LET name == esc[2]
    IN  CASE name = "Reset" ->
               [TerminalState_new(st.size) EXCEPT
                   !.scrollback_buffer = st.scrollback_buffer]
          [] name = "TabSet" -> set_tab_stop(st)
          [] name = "SaveCursor" -> save_cursor(st)
          [] name = "RestoreCursor" -> restore_cursor(st)
          [] OTHER -> st

process_esc(st, esc) ==
    LET name == esc[2]
    IN  CASE name = "Index" ->
               LET s1 == [st EXCEPT !.cursor = move_down(@, 1)]
               IN  IF cursor_position(s1).row >= wrapping_sub(s1.size.rows, 1)
                   THEN scroll_up(s1) ELSE s1
          [] name = "NextLine" ->
               [st EXCEPT !.cursor = move_down(set_column(@, 0), 1)]
          [] name = "TabSet" -> set_tab_stop(st)
          [] name = "ReverseIndex" ->
               IF cursor_position(st).row = 0 THEN scroll_down(st)
               ELSE [st EXCEPT !.cursor = move_up(@, 1)]
          [] name = "KeypadApplicationMode" -> set_mode_flag(st, "ApplicationKeypad", TRUE)
          [] name = "KeypadNumericMode" -> set_mode_flag(st, "ApplicationKeypad", FALSE)
          [] name = "SaveCursor" -> save_cursor(st)
          [] name = "RestoreCursor" -> restore_cursor(st)
          [] name = "Reset" -> TerminalState_new(st.size)

process_event(st, event) ==
    CASE event[1] = "Text" -> write_str(st, event[2])
      [] event[1] = "Control" -> process_control(st, event[2])
      [] event[1] = "Csi" -> process_csi(st, event)
      [] event[1] = "Osc" -> process_osc(st, event)
      [] event[1] = "Esc" -> process_esc(st, event)

RECURSIVE process_events(_, _)
\* for event in events { AnsiProcessor::process_event(&mut self.state, event) }
process_events(st, events) ==
    IF events = << >> THEN st
    ELSE process_events(process_event(st, Head(events)), Tail(events))

(***************************************************************************)
(* phosphor-parser lib.rs : TerminalPerformer (the vte::Perform callbacks) *)
(***************************************************************************)
TerminalPerformer_new == [events |-> << >>, current_text |-> << >>]

flush_text(pf) ==
    IF pf.current_text # << >>
    THEN [events |-> Append(pf.events, <<"Text", pf.current_text>>),
          current_text |-> << >>]
    ELSE pf

push(pf, event) == [pf EXCEPT !.events = Append(@, event)]

print(pf, c) == [pf EXCEPT !.current_text = Append(@, c)]

ExecuteEvent ==
    (7 :> "Bell") @@ (8 :> "Backspace") @@ (9 :> "Tab") @@ (10 :> "NewLine")
    @@ (11 :> "VerticalTab") @@ (12 :> "FormFeed") @@ (13 :> "CarriageReturn")

\* execute that pushes the Control event without flushing the pending text
execute_without_flush(pf, byte) ==
    IF byte \in DOMAIN ExecuteEvent
    THEN push(pf, <<"Control", ExecuteEvent[byte]>>)
    ELSE pf

execute(pf, byte) ==
    LET f == flush_text(pf)
    IN  IF byte \in DOMAIN ExecuteEvent
        THEN push(f, <<"Control", ExecuteEvent[byte]>>)
        ELSE f

\* params is the list of the first sub-parameter of every parameter
get_param(params, index, default) ==
    IF index < Len(params) /\ params[index + 1] > 0
    THEN params[index + 1] ELSE default

clamp(v, lo, hi) == IF v < lo THEN lo ELSE IF v > hi THEN hi ELSE v

\* `as u8`
as_u8(v) == v % 256

SgrSimple ==
    (0 :> "Reset") @@ (1 :> "Bold") @@ (2 :> "Dim") @@ (3 :> "Italic")
    @@ (4 :> "Underline") @@ (5 :> "Blink") @@ (7 :> "Reverse") @@ (8 :> "Hidden")
    @@ (9 :> "Strikethrough") @@ (21 :> "NoBold") @@ (22 :> "NoDim")
    @@ (23 :> "NoItalic") @@ (24 :> "NoUnderline") @@ (25 :> "NoBlink")
    @@ (27 :> "NoReverse") @@ (28 :> "NoHidden") @@ (29 :> "NoStrikethrough")
    @@ (39 :> "DefaultForeground") @@ (49 :> "DefaultBackground")

RECURSIVE parse_sgr_from(_, _)
\* the while loop of parse_sgr_params from index i (0-based) on
parse_sgr_from(pv, i) ==
    IF i >= Len(pv) THEN << >>
    ELSE
    LET param == pv[i + 1]
        n == Len(pv)
        ground == IF param = 38 THEN "Foreground" ELSE "Background"
        \* << pushed parameters, extra increment of i >>
        ext == IF i + 1 < n
               THEN IF pv[i + 2] = 5 /\ i + 2 < n
                    THEN << << <<ground, <<"Indexed", as_u8(pv[i + 3])>> >> >>, 2 >>
                    ELSE IF pv[i + 2] = 2 /\ i + 4 < n
                    THEN << << <<ground, <<"Rgb", clamp(pv[i + 3], 0, 255),
                                  clamp(pv[i + 4], 0, 255), clamp(pv[i + 5], 0, 255)>> >> >>, 4 >>
                    ELSE << << >>, 0 >>
               ELSE << << >>, 0 >>
        step ==
            CASE param \in DOMAIN SgrSimple -> << << <<SgrSimple[param]>> >>, 0 >>
              [] param \in 30..37 -> << << <<"Foreground", Color_from_ansi(param - 30)>> >>, 0 >>
              [] param \in 40..47 -> << << <<"Background", Color_from_ansi(param - 40)>> >>, 0 >>
              [] param \in {38, 48} -> ext
              [] param \in 90..97 -> << << <<"Foreground", Color_from_ansi(param - 90 + 8)>> >>, 0 >>
              [] param \in 100..107 -> << << <<"Background", Color_from_ansi(param - 100 + 8)>> >>, 0 >>
              [] OTHER -> << << >>, 0 >>
    IN  step[1] \o parse_sgr_from(pv, i + step[2] + 1)

parse_sgr_params(params) == parse_sgr_from(params, 0)

EraseDisplayMode(params) ==
    LET v == IF Len(params) > 0 THEN params[1] ELSE 0
    IN  CASE v = 1 -> "Above" [] v = 2 -> "All" [] v = 3 -> "Saved" [] OTHER -> "Below"

EraseLineMode(params) ==
    LET v == IF Len(params) > 0 THEN params[1] ELSE 0
    IN  CASE v = 1 -> "Above" [] v = 2 -> "All" [] OTHER -> "Below"

CsiCount ==
    (65 :> "CursorUp") @@ (66 :> "CursorDown") @@ (67 :> "CursorForward")
    @@ (68 :> "CursorBack") @@ (69 :> "CursorNextLine")
    @@ (70 :> "CursorPreviousLine") @@ (71 :> "CursorColumn")
    @@ (83 :> "ScrollUp") @@ (84 :> "ScrollDown")

RECURSIVE CursorVisibility(_, _)
\* the events pushed by the DECSET / DECRST loops: one per parameter 25
CursorVisibility(params, name) ==
    IF params = << >> THEN << >>
    ELSE (IF Head(params) = 25 THEN << <<"Csi", name>> >> ELSE << >>)
         \o CursorVisibility(Tail(params), name)

csi_dispatch(pf, params, intermediates, ignore, action) ==
    LET f == flush_text(pf)
    IN  IF ignore THEN f
        ELSE CASE action \in DOMAIN CsiCount ->
                    push(f, <<"Csi", CsiCount[action], get_param(params, 0, 1)>>)
               [] action \in {72, 102} ->
                    push(f, <<"Csi", "CursorPosition",
                              get_param(params, 0, 1), get_param(params, 1, 1)>>)
               [] action = 74 -> push(f, <<"Csi", "EraseDisplay", EraseDisplayMode(params)>>)
               [] action = 75 -> push(f, <<"Csi", "EraseLine", EraseLineMode(params)>>)
               [] action = 109 ->
                    push(f, <<"Csi", "SetGraphicsRendition", parse_sgr_params(params)>>)
               [] action = 104 /\ intermediates = <<63>> ->
                    [f EXCEPT !.events = @ \o CursorVisibility(params, "ShowCursor")]
               [] action = 108 /\ intermediates = <<63>> ->
                    [f EXCEPT !.events = @ \o CursorVisibility(params, "HideCursor")]
               [] action = 115 -> push(f, <<"Csi", "SaveCursor">>)
               [] action = 117 -> push(f, <<"Csi", "RestoreCursor">>)
               [] OTHER -> f

EscEvent ==
    (68 :> "Index") @@ (69 :> "NextLine") @@ (72 :> "TabSet")
    @@ (77 :> "ReverseIndex") @@ (99 :> "Reset") @@ (55 :> "SaveCursor")
    @@ (56 :> "RestoreCursor") @@ (61 :> "KeypadApplicationMode")
    @@ (62 :> "KeypadNumericMode")

\* esc_dispatch that does not flush the pending text first
esc_dispatch_without_flush(pf, intermediates, ignore, byte) ==
    IF ignore THEN pf
    ELSE IF byte \in DOMAIN EscEvent
         THEN push(pf, <<"Esc", EscEvent[byte]>>)
         ELSE pf

esc_dispatch(pf, intermediates, ignore, byte) ==
    LET f == flush_text(pf)
    IN  IF ignore THEN f
        ELSE IF byte \in DOMAIN EscEvent
             THEN push(f, <<"Esc", EscEvent[byte]>>)
             ELSE f

(***************************************************************************)
(* vte::Parser::advance as VteParser::parse drives it: the VT500 automaton *)
(* over 7-bit input, for the states reached through ESC and CSI.  Bytes    *)
(* that open OSC, DCS or SOS/PM/APC strings and bytes >= 0x80 are outside  *)
(* the modelled input alphabet and have no case here.                      *)
(***************************************************************************)
Parser_new ==
    [state |-> "Ground", params |-> << >>, param |-> 0,
     intermediates |-> << >>, ignoring |-> FALSE]

VteParser_new == [parser |-> Parser_new, performer |-> TerminalPerformer_new]

IsC0(b) == b \in (0..23) \cup {25} \cup (28..31)

Parser_clear(p, state) ==
    [state |-> state, params |-> << >>, param |-> 0,
     intermediates |-> << >>, ignoring |-> FALSE]

Parser_collect(p, b) ==
    IF Len(p.intermediates) >= 2 THEN [p EXCEPT !.ignoring = TRUE]
    ELSE [p EXCEPT !.intermediates = Append(@, b)]

Parser_param(p, b) ==
    IF b = 59 THEN [p EXCEPT !.params = Append(@, p.param), !.param = 0]
    ELSE [p EXCEPT !.param = saturating_add(Min(@ * 10, U16Max), b - 48)]

advance(vp, byte) ==
    LET p == vp.parser
        pf == vp.performer
        to(state) == [p EXCEPT !.state = state]
        exec == [vp EXCEPT !.performer = execute(pf, byte)]
        dispatch_csi ==
            [parser |-> [p EXCEPT !.state = "Ground", !.params = Append(@, p.param)],
             performer |-> csi_dispatch(pf, Append(p.params, p.param),
                                        p.intermediates, p.ignoring, byte)]
        dispatch_esc ==
            [parser |-> to("Ground"),
             performer |-> esc_dispatch(pf, p.intermediates, p.ignoring, byte)]
    IN  CASE byte = 27 -> [vp EXCEPT !.parser = Parser_clear(p, "Escape")]
          [] byte \in {24, 26} ->
                [parser |-> to("Ground"), performer |-> execute(pf, byte)]
          [] IsC0(byte) -> exec
          [] p.state = "Ground" /\ byte \in 32..127 ->
                [vp EXCEPT !.performer = print(pf, byte)]
          [] p.state = "Escape" /\ byte = 91 ->
                [vp EXCEPT !.parser = Parser_clear(p, "CsiEntry")]
          [] p.state = "Escape" /\ byte \in 32..47 ->
                [vp EXCEPT !.parser = Parser_collect(to("EscapeIntermediate"), byte)]
          [] p.state = "Escape"
             /\ byte \in (48..79) \cup (81..87) \cup {89, 90, 92} \cup (96..126) ->
                dispatch_esc
          [] p.state = "EscapeIntermediate" /\ byte \in 32..47 ->
                [vp EXCEPT !.parser = Parser_collect(p, byte)]
          [] p.state = "EscapeIntermediate" /\ byte \in 48..126 -> dispatch_esc
          [] p.state = "CsiEntry" /\ byte \in (48..57) \cup {59} ->
                [vp EXCEPT !.parser = Parser_param(to("CsiParam"), byte)]
          [] p.state = "CsiEntry" /\ byte \in 60..63 ->
                [vp EXCEPT !.parser = Parser_collect(to("CsiParam"), byte)]
          [] p.state = "CsiParam" /\ byte \in (48..57) \cup {59} ->
                [vp EXCEPT !.parser = Parser_param(p, byte)]
          [] p.state = "CsiParam" /\ byte \in 60..63 ->
                [vp EXCEPT !.parser = to("CsiIgnore")]
          [] p.state \in {"CsiEntry", "CsiParam"} /\ byte \in 32..47 ->
                [vp EXCEPT !.parser = Parser_collect(to("CsiIntermediate"), byte)]
          [] p.state = "CsiIntermediate" /\ byte \in 32..47 ->
                [vp EXCEPT !.parser = Parser_collect(p, byte)]
          [] p.state = "CsiIntermediate" /\ byte \in 48..63 ->
                [vp EXCEPT !.parser = to("CsiIgnore")]
          [] p.state \in {"CsiEntry", "CsiParam", "CsiIntermediate"}
             /\ byte \in 64..126 -> dispatch_csi
          [] p.state = "CsiIgnore" /\ byte \in 32..63 -> vp
          [] p.state = "CsiIgnore" /\ byte \in 64..126 ->
                [vp EXCEPT !.parser = to("Ground")]
          [] p.state # "Ground" /\ byte = 127 -> vp

RECURSIVE advance_all(_, _)
\* for &byte in data { self.parser.advance(&mut self.performer, byte) }
advance_all(vp, data) ==
    IF data = << >> THEN vp ELSE advance_all(advance(vp, Head(data)), Tail(data))

\* parse that starts every call with a fresh automaton (no escape sequence
\* survives a call boundary)
parse_fresh_automaton(vp, data) ==
    LET cleared == [vp EXCEPT !.performer.events = << >>, !.parser = Parser_new]
        fed_ == advance_all(cleared, data)
        flushed == [fed_ EXCEPT !.performer = flush_text(@)]
    IN  << flushed.performer.events, [flushed EXCEPT !.performer.events = << >>] >>

\* VteParser::parse: << the returned events, the parser after the call >>
parse(vp, data) ==
    LET cleared == [vp EXCEPT !.performer.events = << >>]
        fed_ == advance_all(cleared, data)
        flushed == [fed_ EXCEPT !.performer = flush_text(@)]
    IN  << flushed.performer.events, [flushed EXCEPT !.performer.events = << >>] >>

(***************************************************************************)
(* State.                                                                  *)
(*   st, vp      Terminal.state and Terminal.parser                        *)
(*   fed         every byte given to parse so far, in order                *)
(*   emitted     the results of all parse calls so far, concatenated       *)
(*   alt_phase, primary_at_enable, n_ops                                   *)
(*               history of the alternate-screen scenario: where the       *)
(*               scenario stands, the screen buffer as it was just before  *)
(*               enable_alternate_screen, the operations applied since     *)
(*               that enable, the operations applied so far                *)
(*   prev, last_ev                                                         *)
(*               history of the single-operation scenarios: the state      *)
(*               just before the last operation, and that operation        *)
(*   saved_at    the cursor position at the last save_cursor, until the    *)
(*               operation after the restore_cursor that uses it           *)
(***************************************************************************)
VARIABLES st, vp, fed, emitted, alt_phase, primary_at_enable, alt_ops, n_ops,
          prev, last_ev, saved_at

(***************************************************************************)
(* State of Terminal::run and the tasks it spawns.                         *)
(*   main_pc       where run stands: "start" (initial alive check),        *)
(*                 "select" (top of the loop, read not yet holding the     *)
(*                 lock), "reading" (the read future holds the lock, the   *)
(*                 blocking read is in flight), "alive_check" (the sleep   *)
(*                 branch won), "cleanup", "join" (cmd_processor.await),   *)
(*                 "done" (Ok(())), "err" (returned Err)                   *)
(*   cmd_pc        the command processor: "recv", "write_lock",            *)
(*                 "writing", "resize_lock", "exited"                      *)
(*   cur_cmd       the command the processor is handling                   *)
(*   test_pc       commands the task spawned at lib.rs:97 has sent (0..3); *)
(*                 -1 before it is spawned                                 *)
(*   inner_lock    holder of PtyManager.inner: "free", "main", "cmd"       *)
(*   command_rx    the mpsc command queue                                  *)
(*   published     every event sent on the broadcast channel, in order;    *)
(*                 StateChanged and OutputReady carry the index of the     *)
(*                 read they come from                                     *)
(*   child_alive   the shell process has not exited                        *)
(*   sleep_elapsed time run down on the sleep of the current iteration     *)
(*   reader_taken  AsyncPtyIo.reader was moved into a blocking read whose  *)
(*                 future was dropped (the field holds io::empty())        *)
(*   pty_size, pty_written   what reached the PTY                          *)
(*   n_reads, n_sent         reads that returned data, commands sent by    *)
(*                 clients                                                 *)
(*   last_resize, close_received   history: the last Resize the processor  *)
(*                 handled, whether it received Close                      *)
(*   read_data     Option: &buffer[..n] of the read being processed        *)
(*   pending       the events parse returned that the loop of              *)
(*                 process_output has not applied yet                      *)
(***************************************************************************)
VARIABLES main_pc, cmd_pc, cur_cmd, test_pc, inner_lock, command_rx,
          published, child_alive, sleep_elapsed, reader_taken, pty_size,
          pty_written, n_reads, n_sent, last_resize, close_received,
          read_data, pending

readVars == << read_data, pending >>

coordVars ==
    << main_pc, cmd_pc, cur_cmd, test_pc, inner_lock, command_rx, published,
       child_alive, sleep_elapsed, reader_taken, pty_size, pty_written,
       n_reads, n_sent, last_resize, close_received, readVars >>

engineVars ==
    << st, vp, fed, emitted, alt_phase, primary_at_enable, alt_ops, n_ops,
       prev, last_ev, saved_at >>

histVars == << prev, last_ev, saved_at >>

\* Terminal::new(size): the size of the modelled terminal
InitSize == Size_new(2, 2)

\* the input alphabet: a  LF  ESC  [  2  D  J
Bytes == {97, 10, 27, 91, 50, 68, 74}

\* everything but the terminal state: a fresh parser and empty histories
InitHistory ==
    /\ vp = VteParser_new
    /\ fed = << >>
    /\ emitted = << >>
    /\ alt_phase = "before"
    /\ primary_at_enable = None
    /\ alt_ops = 0
    /\ n_ops = 0
    /\ prev = None
    /\ last_ev = None
    /\ saved_at = None

InitEngine ==
    /\ st = TerminalState_new(InitSize)
    /\ InitHistory

(***************************************************************************)
(* Terminal::process_output on one chunk of PTY output: parse, then apply  *)
(* every event to the state, in order.                                     *)
(***************************************************************************)
process_output(state, parser, data) ==
    LET r == parse(parser, data)
    IN  << process_events(state, r[1]), r[2], r[1] >>

RECURSIVE SeqsOfLen(_)
SeqsOfLen(n) ==
    IF n = 0 THEN { << >> }
    ELSE { Append(s, b) : s \in SeqsOfLen(n - 1), b \in Bytes }

\* one parse call per byte
FeedByte(b) ==
    /\ Len(fed) < MaxStream
    /\ LET r == parse(vp, << b >>)
       IN  /\ vp' = r[2]
           /\ emitted' = emitted \o r[1]
    /\ fed' = Append(fed, b)
    /\ UNCHANGED << st, alt_phase, primary_at_enable, alt_ops, n_ops >>
    /\ UNCHANGED histVars
    /\ UNCHANGED coordVars

\* one process_output call on a chunk of any length
FeedChunk(chunk) ==
    /\ Len(fed) + Len(chunk) <= MaxBytes
    /\ LET r == process_output(st, vp, chunk)
       IN  /\ st' = r[1]
           /\ vp' = r[2]
    /\ fed' = fed \o chunk
    /\ UNCHANGED << emitted, alt_phase, primary_at_enable, alt_ops, n_ops >>
    /\ UNCHANGED histVars
    /\ UNCHANGED coordVars

NextBytes == \E b \in Bytes : FeedByte(b)

NextChunks == \E n \in 1..MaxBytes : \E chunk \in SeqsOfLen(n) : FeedChunk(chunk)

(***************************************************************************)
(* The alternate-screen scenario on the state engine: printable writes,    *)
(* erases and scrolls, with enable_alternate_screen and                    *)
(* disable_alternate_screen around some of them.                           *)
(***************************************************************************)
EraseModes == {"Below", "Above", "All", "Saved"}

ScreenOps ==
    { <<"Text", <<97>>>>, <<"Csi", "ScrollUp", 1>>, <<"Csi", "ScrollDown", 1>> }
    \cup { <<"Csi", "EraseDisplay", m>> : m \in EraseModes }
    \cup { <<"Csi", "EraseLine", m>> : m \in EraseModes \ {"Saved"} }

ScreenOp(ev) ==
    /\ n_ops < MaxOps
    /\ st' = process_event(st, ev)
    /\ n_ops' = n_ops + 1
    /\ alt_ops' = IF alt_phase = "alt" THEN alt_ops + 1 ELSE alt_ops
    /\ alt_phase' = IF alt_phase = "after" THEN "before" ELSE alt_phase
    /\ UNCHANGED << vp, fed, emitted, primary_at_enable >>
    /\ UNCHANGED histVars
    /\ UNCHANGED coordVars

EnableAlt ==
    /\ n_ops < MaxOps
    /\ alt_phase # "alt"
    /\ st' = enable_alternate_screen(st)
    /\ primary_at_enable' = Some(st.screen_buffer)
    /\ alt_phase' = "alt"
    /\ alt_ops' = 0
    /\ n_ops' = n_ops + 1
    /\ UNCHANGED << vp, fed, emitted >>
    /\ UNCHANGED histVars
    /\ UNCHANGED coordVars

DisableAlt ==
    /\ alt_phase = "alt"
    /\ st' = disable_alternate_screen(st)
    /\ alt_phase' = "after"
    /\ UNCHANGED << vp, fed, emitted, primary_at_enable, alt_ops, n_ops >>
    /\ UNCHANGED histVars
    /\ UNCHANGED coordVars

NextAlt ==
    \/ \E ev \in ScreenOps : ScreenOp(ev)
    \/ EnableAlt
    \/ DisableAlt

(***************************************************************************)
(* The alternate-screen scenario driven through the parser: the bytes      *)
(* ESC [ ? 1 0 4 9 h, printable bytes, the bytes ESC [ ? 1 0 4 9 l, each   *)
(* given to process_output.                                                *)
(***************************************************************************)
Decset1049 == << 27, 91, 63, 49, 48, 52, 57, 104 >>

Decrst1049 == << 27, 91, 63, 49, 48, 52, 57, 108 >>

Printables == {97, 98}

FeedDecset1049 ==
    /\ n_ops < MaxOps
    /\ alt_phase # "alt"
    /\ LET r == process_output(st, vp, Decset1049)
       IN  /\ st' = r[1]
           /\ vp' = r[2]
    /\ primary_at_enable' = Some(st.screen_buffer)
    /\ alt_phase' = "alt"
    /\ alt_ops' = 0
    /\ n_ops' = n_ops + 1
    /\ UNCHANGED << fed, emitted, prev, last_ev, saved_at >>
    /\ UNCHANGED coordVars

FeedPrintable(c) ==
    /\ n_ops < MaxOps
    /\ LET r == process_output(st, vp, << c >>)
       IN  /\ st' = r[1]
           /\ vp' = r[2]
    /\ n_ops' = n_ops + 1
    /\ alt_ops' = IF alt_phase = "alt" THEN alt_ops + 1 ELSE alt_ops
    /\ alt_phase' = IF alt_phase = "after" THEN "before" ELSE alt_phase
    /\ UNCHANGED << fed, emitted, primary_at_enable >>
    /\ UNCHANGED histVars
    /\ UNCHANGED coordVars

FeedDecrst1049 ==
    /\ alt_phase = "alt"
    /\ LET r == process_output(st, vp, Decrst1049)
       IN  /\ st' = r[1]
           /\ vp' = r[2]
    /\ alt_phase' = "after"
    /\ UNCHANGED << fed, emitted, primary_at_enable, alt_ops, n_ops, prev,
                    last_ev, saved_at >>
    /\ UNCHANGED coordVars

NextAltBytes ==
    \/ FeedDecset1049
    \/ \E c \in Printables : FeedPrintable(c)
    \/ FeedDecrst1049

(***************************************************************************)
(* Printable writes from the home position on screens of several sizes.    *)
(***************************************************************************)
NonZeroSizes == { Size_new(c, r) : c \in 1..MaxDim, r \in 1..MaxDim }

\* one printable character applied as a Text event
WritePrintable(c) ==
    /\ n_ops < MaxText
    /\ st' = process_event(st, <<"Text", << c >>>>)
    /\ n_ops' = n_ops + 1
    /\ prev' = Some(st)
    /\ last_ev' = Some(<<"Text", << c >>>>)
    /\ UNCHANGED << vp, fed, emitted, alt_phase, primary_at_enable, alt_ops,
                    saved_at >>
    /\ UNCHANGED coordVars

NextWrap == \E c \in Printables : WritePrintable(c)

(***************************************************************************)
(* Scrollback buffers of small capacities: lines pushed directly and lines *)
(* scrolled off the screen.                                                *)
(***************************************************************************)
Capacities == 0..MaxCap

PushedLines ==
    { BlankLine(InitSize.cols) }
    \cup { AsVec([c \in 1..InitSize.cols |-> Cell_new(ch)]) : ch \in Printables }

\* scrollback_buffer_mut().push(line)
PushLine(line) ==
    /\ n_ops < MaxOps
    /\ st' = [st EXCEPT !.scrollback_buffer = ScrollbackBuffer_push(@, line)]
    /\ n_ops' = n_ops + 1
    /\ prev' = Some(st)
    /\ last_ev' = Some(<<"push", line>>)
    /\ UNCHANGED << vp, fed, emitted, alt_phase, primary_at_enable, alt_ops,
                    saved_at >>
    /\ UNCHANGED coordVars

\* TerminalState::scroll_up()
ScrollUpLine ==
    /\ n_ops < MaxOps
    /\ st' = scroll_up(st)
    /\ n_ops' = n_ops + 1
    /\ prev' = Some(st)
    /\ last_ev' = Some(<<"scroll_up">>)
    /\ UNCHANGED << vp, fed, emitted, alt_phase, primary_at_enable, alt_ops,
                    saved_at >>
    /\ UNCHANGED coordVars

NextScrollback ==
    \/ \E line \in PushedLines : PushLine(line)
    \/ ScrollUpLine

(***************************************************************************)
(* Screen operations on screens of every small size, empty ones included:  *)
(* writes, direct cell stores, scrolls, clears and resizes.                *)
(***************************************************************************)
AllSizes == { Size_new(c, r) : c \in 0..MaxDim, r \in 0..MaxDim }

ScreenEvents ==
    { <<"Text", <<97>>>>, <<"Control", "NewLine">>, <<"Control", "FormFeed">>,
      <<"Csi", "ScrollUp", 1>>, <<"Csi", "ScrollDown", 1>>,
      <<"Csi", "EraseDisplay", "All">> }

\* one event applied by AnsiProcessor::process_event
ScreenEvent(ev) ==
    /\ n_ops < MaxScreenOps
    /\ st' = process_event(st, ev)
    /\ n_ops' = n_ops + 1
    /\ prev' = Some(st)
    /\ last_ev' = Some(ev)
    /\ UNCHANGED << vp, fed, emitted, alt_phase, primary_at_enable, alt_ops,
                    saved_at >>
    /\ UNCHANGED coordVars

\* screen_buffer_mut().set_cell(pos, Cell::new('b'))
SetCell(pos) ==
    /\ n_ops < MaxScreenOps
    /\ st' = [st EXCEPT !.screen_buffer = set_cell(@, pos, Cell_new(98))]
    /\ n_ops' = n_ops + 1
    /\ prev' = Some(st)
    /\ last_ev' = Some(<<"set_cell", pos>>)
    /\ UNCHANGED << vp, fed, emitted, alt_phase, primary_at_enable, alt_ops,
                    saved_at >>
    /\ UNCHANGED coordVars

\* TerminalState::resize(new_size)
Resize(new_size) ==
    /\ n_ops < MaxScreenOps
    /\ st' = TerminalState_resize(st, new_size)
    /\ n_ops' = n_ops + 1
    /\ prev' = Some(st)
    /\ last_ev' = Some(<<"resize", new_size>>)
    /\ UNCHANGED << vp, fed, emitted, alt_phase, primary_at_enable, alt_ops,
                    saved_at >>
    /\ UNCHANGED coordVars

NextScreen ==
    \/ \E ev \in ScreenEvents : ScreenEvent(ev)
    \/ \E pos \in { Position_new(0, 0), Position_new(1, 1) } : SetCell(pos)
    \/ \E new_size \in AllSizes : Resize(new_size)

(***************************************************************************)
(* Cursor movement on screens of every small non-zero size: writes,        *)
(* newlines, carriage returns, unclamped CSI moves, an attribute change,   *)
(* and the save and restore of the cursor.                                 *)
(***************************************************************************)
CursorEvents ==
    { <<"Text", <<97>>>>, <<"Control", "NewLine">>,
      <<"Control", "CarriageReturn">>, <<"Csi", "CursorUp", 1>>,
      <<"Csi", "CursorForward", 1>>, <<"Csi", "CursorPosition", 2, 2>>,
      <<"Csi", "SetGraphicsRendition", << <<"Bold">> >> >>,
      <<"Esc", "SaveCursor">>, <<"Csi", "RestoreCursor">> }

IsSave(ev) == ev \in { <<"Esc", "SaveCursor">>, <<"Csi", "SaveCursor">> }

IsRestore(ev) == ev \in { <<"Esc", "RestoreCursor">>, <<"Csi", "RestoreCursor">> }

\* one event applied by AnsiProcessor::process_event; saved_at follows the
\* position handed to save_cursor until the restore that consumes it is over
CursorEvent(ev) ==
    /\ n_ops < MaxCursorOps
    /\ st' = process_event(st, ev)
    /\ n_ops' = n_ops + 1
    /\ prev' = Some(st)
    /\ last_ev' = Some(ev)
    /\ saved_at' = IF IsSave(ev) THEN Some(st.cursor.position)
                   ELSE IF last_ev # None /\ IsRestore(last_ev[1]) THEN None
                   ELSE saved_at
    /\ UNCHANGED << vp, fed, emitted, alt_phase, primary_at_enable, alt_ops >>
    /\ UNCHANGED coordVars

NextCursor == \E ev \in CursorEvents : CursorEvent(ev)

(***************************************************************************)
(* Events of every kind on screens of every small non-zero size: writes,   *)
(* C0 controls, CSI cursor moves with and without oversized parameters,    *)
(* scrolls, an erase, an attribute change, a mode change and the ESC       *)
(* sequences that move the cursor.                                         *)
(***************************************************************************)
EngineEvents ==
    { <<"Text", <<97>>>>, <<"Control", "NewLine">>, <<"Control", "Backspace">>,
      <<"Control", "Tab">>, <<"Csi", "CursorDown", 1>>,
      <<"Csi", "CursorForward", 1>>, <<"Csi", "CursorNextLine", 1>>,
      <<"Csi", "CursorPosition", 9, 9>>, <<"Csi", "ScrollUp", 1>>,
      <<"Csi", "ScrollDown", 1>>, <<"Csi", "EraseDisplay", "All">>,
      <<"Csi", "SetGraphicsRendition", << <<"Bold">> >> >>,
      <<"Csi", "SetMode", << "Insert" >> >>,
      <<"Esc", "Index">>, <<"Esc", "NextLine">>, <<"Esc", "ReverseIndex">>,
      <<"Esc", "TabSet">> }

NextEvents == \E ev \in EngineEvents : ScreenEvent(ev)

(***************************************************************************)
(* CSI ... m sequences: the parameter list vte hands to csi_dispatch is     *)
(* decoded by parse_sgr_params and the SetGraphicsRendition event applied.  *)
(***************************************************************************)
SgrParamLists ==
    { <<0>>, <<1>>, <<2>>, <<5>>, <<21>>, <<22>>, <<25>>, <<1, 22>>,
      <<38, 5, 1>>, <<48, 5, 300>>, <<38, 5, 1, 4>>, <<7, 48, 2, 1, 2, 300, 4>>,
      <<38, 5>>, <<48, 2, 1, 2>>, <<38, 2, 1>> }

\* csi_dispatch(params, [], false, 'm') on a performer without pending text,
\* then process_event on each event it pushed
SgrDispatch(pv) ==
    /\ n_ops < MaxScreenOps
    /\ st' = process_events(st,
                csi_dispatch(TerminalPerformer_new, pv, << >>, FALSE, 109).events)
    /\ n_ops' = n_ops + 1
    /\ prev' = Some(st)
    /\ last_ev' = Some(<<"csi_dispatch", pv, 109>>)
    /\ UNCHANGED << vp, fed, emitted, alt_phase, primary_at_enable, alt_ops,
                    saved_at >>
    /\ UNCHANGED coordVars

NextSgr == \E pv \in SgrParamLists : SgrDispatch(pv)

(***************************************************************************)
(* The events that move the cursor down or right: newlines, CUD, CUF, CNL,  *)
(* Index, NextLine and printable writes.                                    *)
(***************************************************************************)
MoveEvents ==
    { <<"Text", <<97>>>>, <<"Control", "NewLine">>, <<"Csi", "CursorDown", 1>>,
      <<"Csi", "CursorForward", 1>>, <<"Csi", "CursorNextLine", 1>>,
      <<"Esc", "Index">>, <<"Esc", "NextLine">> }

NextMoves == \E ev \in MoveEvents : ScreenEvent(ev)

(***************************************************************************)
(* Tabs on screens of zero, one, nine and seventeen columns: Tab, TabSet,   *)
(* and the events that bring the cursor to other columns and rows.          *)
(***************************************************************************)
TabSizes == { Size_new(cols, rows) : cols \in {0, 1, 9, 17}, rows \in {1, 2} }

TabEvents ==
    { <<"Control", "Tab">>, <<"Text", <<97>>>>, <<"Control", "NewLine">>,
      <<"Control", "CarriageReturn">>, <<"Csi", "CursorForward", 3>>,
      <<"Esc", "TabSet">> }

\* one event applied by AnsiProcessor::process_event
TabEvent(ev) ==
    /\ n_ops < MaxTabOps
    /\ st' = process_event(st, ev)
    /\ n_ops' = n_ops + 1
    /\ prev' = Some(st)
    /\ last_ev' = Some(ev)
    /\ UNCHANGED << vp, fed, emitted, alt_phase, primary_at_enable, alt_ops,
                    saved_at >>
    /\ UNCHANGED coordVars

NextTab == \E ev \in TabEvents : TabEvent(ev)

(***************************************************************************)
(* ESC c after events that change every part of the state: cells, cursor,   *)
(* scrollback, attributes, modes, the saved cursor, the tab stops and the   *)
(* alternate screen.                                                        *)
(***************************************************************************)
ResetEvents ==
    { <<"Text", <<97>>>>, <<"Csi", "ScrollUp", 1>>,
      <<"Csi", "CursorForward", 1>>,
      <<"Csi", "SetGraphicsRendition", << <<"Bold">> >> >>,
      <<"Csi", "SetMode", << "Insert" >> >>,
      <<"Csi", "SetMode", << "AlternateScreen" >> >>,
      <<"Csi", "HideCursor">>,
      <<"Esc", "SaveCursor">>, <<"Esc", "TabSet">>, <<"Esc", "Reset">> }

NextReset == \E ev \in ResetEvents : ScreenEvent(ev)

(***************************************************************************)
(* EraseDisplay(Below) and EraseDisplay(Above) on screens with written      *)
(* cells, with bold active, and with the cursor placed by CUP, CUF and      *)
(* newlines.                                                                *)
(***************************************************************************)
EraseEvents ==
    { <<"Text", <<97, 97>>>>, <<"Control", "NewLine">>,
      <<"Csi", "CursorForward", 1>>, <<"Csi", "CursorPosition", 1, 1>>,
      <<"Csi", "CursorPosition", 1, 2>>,
      <<"Csi", "SetGraphicsRendition", << <<"Bold">> >> >>,
      <<"Csi", "ScrollUp", 1>>,
      <<"Csi", "EraseDisplay", "Below">>, <<"Csi", "EraseDisplay", "Above">> }

\* one event applied by AnsiProcessor::process_event
EraseEvent(ev) ==
    /\ n_ops < MaxEraseOps
    /\ st' = process_event(st, ev)
    /\ n_ops' = n_ops + 1
    /\ prev' = Some(st)
    /\ last_ev' = Some(ev)
    /\ UNCHANGED << vp, fed, emitted, alt_phase, primary_at_enable, alt_ops,
                    saved_at >>
    /\ UNCHANGED coordVars

NextErase == \E ev \in EraseEvents : EraseEvent(ev)

(***************************************************************************)
(* Resizes between non-zero sizes mixed with entering and leaving the       *)
(* alternate screen and with writes.                                        *)
(***************************************************************************)
AltResizeEvents ==
    { <<"Text", <<97>>>>, <<"Csi", "SetMode", << "AlternateScreen" >> >>,
      <<"Csi", "ResetMode", << "AlternateScreen" >> >> }

NextAltResize ==
    \/ \E ev \in AltResizeEvents : ScreenEvent(ev)
    \/ \E new_size \in NonZeroSizes : Resize(new_size)

(***************************************************************************)
(* Saves and restores of the cursor, several restores after one save        *)
(* included, with cursor moves and writes in between.                       *)
(***************************************************************************)
SlotEvents ==
    { <<"Text", <<97>>>>, <<"Csi", "CursorForward", 1>>,
      <<"Esc", "SaveCursor">>, <<"Esc", "RestoreCursor">>,
      <<"Csi", "RestoreCursor">> }

\* one event applied by AnsiProcessor::process_event; saved_at is the
\* position handed to the last save_cursor
SlotEvent(ev) ==
    /\ n_ops < MaxCursorOps
    /\ st' = process_event(st, ev)
    /\ n_ops' = n_ops + 1
    /\ prev' = Some(st)
    /\ last_ev' = Some(ev)
    /\ saved_at' = IF IsSave(ev) THEN Some(st.cursor.position) ELSE saved_at
    /\ UNCHANGED << vp, fed, emitted, alt_phase, primary_at_enable, alt_ops >>
    /\ UNCHANGED coordVars

NextSlot == \E ev \in SlotEvents : SlotEvent(ev)

(***************************************************************************)
(* Mode changes: the alternate screen entered and left in any order, other  *)
(* modes set and reset, writes, and ESC c.                                  *)
(***************************************************************************)
AltModeEvents ==
    { <<"Text", <<97>>>>, <<"Csi", "SetMode", << "AlternateScreen" >> >>,
      <<"Csi", "ResetMode", << "AlternateScreen" >> >>,
      <<"Csi", "SetMode", << "Insert" >> >>,
      <<"Csi", "ResetMode", << "Insert", "AlternateScreen", "AutoWrap" >> >>,
      <<"Csi", "HideCursor">>, <<"Esc", "Reset">> }

NextAltMode == \E ev \in AltModeEvents : ScreenEvent(ev)

(***************************************************************************)
(* Terminals with no rows or no columns: writes, controls, Index and the    *)
(* other events applied to them.                                            *)
(***************************************************************************)
ZeroSizes == { size \in AllSizes : size.rows = 0 \/ size.cols = 0 }

ZeroSizeEvents ==
    { <<"Text", <<97>>>>, <<"Control", "NewLine">>, <<"Control", "Tab">>,
      <<"Control", "CarriageReturn">>, <<"Csi", "CursorForward", 1>>,
      <<"Csi", "EraseDisplay", "All">>, <<"Esc", "Index">>,
      <<"Esc", "NextLine">> }

NextZero == \E ev \in ZeroSizeEvents : ScreenEvent(ev)

(***************************************************************************)
(* Terminal::run: the main select loop, the command processor task, the    *)
(* task that sends the built-in test commands, the clients and the child.  *)
(***************************************************************************)
\* commands clients send through command_sender()
ClientCommands ==
    { <<"Write", <<97>>>>, <<"Resize", Size_new(3, 2)>>, <<"Close">> }

\* the commands the task spawned inside run sends, in order:
\* Resize(self.size), Write("\n"), Write("pwd\n")
TestCommands ==
    << <<"Resize", InitSize>>, <<"Write", <<10>>>>,
       <<"Write", <<112, 119, 100, 10>>>> >>

\* what a read that returns data can deliver
ReadChunks == { <<97>>, <<10>> }

InitCoord ==
    /\ main_pc = "start"
    /\ cmd_pc = "recv"
    /\ cur_cmd = None
    /\ test_pc = -1
    /\ inner_lock = "free"
    /\ command_rx = << >>
    /\ published = << >>
    /\ child_alive = TRUE
    /\ sleep_elapsed = 0
    /\ reader_taken = FALSE
    /\ pty_size = InitSize
    /\ pty_written = << >>
    /\ n_reads = 0
    /\ n_sent = 0
    /\ last_resize = None
    /\ close_received = FALSE
    /\ read_data = None
    /\ pending = << >>

\* the initial is_alive check; on success the test task is spawned and the
\* loop is entered, otherwise run returns Err
InitialAliveCheck ==
    /\ main_pc = "start"
    /\ inner_lock = "free"
    /\ IF child_alive
       THEN main_pc' = "select" /\ test_pc' = 0
       ELSE main_pc' = "err_start" /\ UNCHANGED test_pc
    /\ UNCHANGED << cmd_pc, cur_cmd, inner_lock, command_rx, published,
                    child_alive, sleep_elapsed, reader_taken, pty_size,
                    pty_written, n_reads, n_sent, last_resize, close_received >>
    /\ UNCHANGED engineVars
    /\ UNCHANGED readVars

\* PtyManager::read acquires inner and starts the blocking read
ReadLock ==
    /\ main_pc = "select"
    /\ inner_lock = "free"
    /\ main_pc' = "reading"
    /\ inner_lock' = "main"
    /\ UNCHANGED << cmd_pc, cur_cmd, test_pc, command_rx, published,
                    child_alive, sleep_elapsed, reader_taken, pty_size,
                    pty_written, n_reads, n_sent, last_resize, close_received >>
    /\ UNCHANGED engineVars
    /\ UNCHANGED readVars

\* Ok(n), n > 0: process_output (which sends StateChanged), then OutputReady;
\* the next iteration starts with a new sleep
ReadData(chunk) ==
    /\ main_pc = "reading"
    /\ ~reader_taken
    /\ n_reads < MaxReads
    /\ LET r == process_output(st, vp, chunk)
       IN  /\ st' = r[1]
           /\ vp' = r[2]
    /\ n_reads' = n_reads + 1
    /\ published' = published \o << <<"StateChanged", n_reads + 1>>,
                                    <<"OutputReady", n_reads + 1, chunk>> >>
    /\ inner_lock' = "free"
    /\ main_pc' = "select"
    /\ sleep_elapsed' = 0
    /\ UNCHANGED << cmd_pc, cur_cmd, test_pc, command_rx, child_alive,
                    reader_taken, pty_size, pty_written, n_sent, last_resize,
                    close_received >>
    /\ UNCHANGED << fed, emitted, alt_phase, primary_at_enable, alt_ops, n_ops,
                    prev, last_ev, saved_at >>
    /\ UNCHANGED readVars

\* Ok(0): WouldBlock, Interrupted, end of file, or a read of io::empty()
ReadZero ==
    /\ main_pc = "reading"
    /\ inner_lock' = "free"
    /\ main_pc' = "select"
    /\ sleep_elapsed' = 0
    /\ UNCHANGED << cmd_pc, cur_cmd, test_pc, command_rx, published,
                    child_alive, reader_taken, pty_size, pty_written, n_reads,
                    n_sent, last_resize, close_received >>
    /\ UNCHANGED engineVars
    /\ UNCHANGED readVars

\* Err(e): return Err(e)
ReadErr ==
    /\ main_pc = "reading"
    /\ ~reader_taken
    /\ inner_lock' = "free"
    /\ main_pc' = "err_read"
    /\ UNCHANGED << cmd_pc, cur_cmd, test_pc, command_rx, published,
                    child_alive, sleep_elapsed, reader_taken, pty_size,
                    pty_written, n_reads, n_sent, last_resize, close_received >>
    /\ UNCHANGED engineVars
    /\ UNCHANGED readVars

\* time passes on the sleep created by the current iteration
Elapse ==
    /\ main_pc \in {"select", "reading"}
    /\ sleep_elapsed < TickLimit
    /\ sleep_elapsed' = sleep_elapsed + 1
    /\ UNCHANGED << main_pc, cmd_pc, cur_cmd, test_pc, inner_lock, command_rx,
                    published, child_alive, reader_taken, pty_size,
                    pty_written, n_reads, n_sent, last_resize, close_received >>
    /\ UNCHANGED engineVars
    /\ UNCHANGED readVars

\* the sleep branch of select! completes first: the read future is dropped,
\* with its guard and, if the blocking read was in flight, the reader
SleepFires ==
    /\ main_pc \in {"select", "reading"}
    /\ sleep_elapsed = TickLimit
    /\ main_pc' = "alive_check"
    /\ IF main_pc = "reading"
       THEN inner_lock' = "free" /\ reader_taken' = TRUE
       ELSE UNCHANGED << inner_lock, reader_taken >>
    /\ UNCHANGED << cmd_pc, cur_cmd, test_pc, command_rx, published,
                    child_alive, sleep_elapsed, pty_size, pty_written, n_reads,
                    n_sent, last_resize, close_received >>
    /\ UNCHANGED engineVars
    /\ UNCHANGED readVars

\* a variant of AliveCheck that publishes Closed from inside the loop and
\* keeps looping
AliveCheck_closed_in_loop ==
    /\ main_pc = "alive_check"
    /\ inner_lock = "free"
    /\ main_pc' = "select"
    /\ sleep_elapsed' = 0
    /\ published' = IF child_alive THEN published
                    ELSE Append(published, <<"Closed">>)
    /\ UNCHANGED << cmd_pc, cur_cmd, test_pc, inner_lock, command_rx,
                    child_alive, reader_taken, pty_size,
                    pty_written, n_reads, n_sent, last_resize, close_received >>
    /\ UNCHANGED engineVars
    /\ UNCHANGED readVars

\* if !self.pty.is_alive().await { break; }
AliveCheck ==
    /\ main_pc = "alive_check"
    /\ inner_lock = "free"
    /\ IF child_alive
       THEN main_pc' = "select" /\ sleep_elapsed' = 0
       ELSE main_pc' = "cleanup" /\ UNCHANGED sleep_elapsed
    /\ UNCHANGED << cmd_pc, cur_cmd, test_pc, inner_lock, command_rx,
                    published, child_alive, reader_taken, pty_size,
                    pty_written, n_reads, n_sent, last_resize, close_received >>
    /\ UNCHANGED engineVars
    /\ UNCHANGED readVars

\* after the loop: event_tx.send(Event::Closed)
Cleanup ==
    /\ main_pc = "cleanup"
    /\ published' = Append(published, <<"Closed">>)
    /\ main_pc' = "join"
    /\ UNCHANGED << cmd_pc, cur_cmd, test_pc, inner_lock, command_rx,
                    child_alive, sleep_elapsed, reader_taken, pty_size,
                    pty_written, n_reads, n_sent, last_resize, close_received >>
    /\ UNCHANGED engineVars
    /\ UNCHANGED readVars

\* cmd_processor.await, then Ok(())
Join ==
    /\ main_pc = "join"
    /\ cmd_pc = "exited"
    /\ main_pc' = "done"
    /\ UNCHANGED << cmd_pc, cur_cmd, test_pc, inner_lock, command_rx,
                    published, child_alive, sleep_elapsed, reader_taken,
                    pty_size, pty_written, n_reads, n_sent, last_resize,
                    close_received >>
    /\ UNCHANGED engineVars
    /\ UNCHANGED readVars

\* command_rx.recv() and the match on the command
\* a processor that notes Close and goes on receiving
CmdRecv_close_continues ==
    /\ cmd_pc = "recv"
    /\ command_rx # << >>
    /\ command_rx' = Tail(command_rx)
    /\ LET cmd == Head(command_rx)
       IN  CASE cmd[1] = "Write" ->
                  /\ cmd_pc' = "write_lock"
                  /\ cur_cmd' = Some(cmd)
                  /\ UNCHANGED close_received
             [] cmd[1] = "Resize" ->
                  /\ cmd_pc' = "resize_lock"
                  /\ cur_cmd' = Some(cmd)
                  /\ UNCHANGED close_received
             [] cmd[1] = "Close" ->
                  /\ cmd_pc' = "recv"
                  /\ cur_cmd' = None
                  /\ close_received' = TRUE
    /\ UNCHANGED << main_pc, test_pc, inner_lock, published, child_alive,
                    sleep_elapsed, reader_taken, pty_size, pty_written,
                    n_reads, n_sent, last_resize >>
    /\ UNCHANGED engineVars
    /\ UNCHANGED readVars

CmdRecv ==
    /\ cmd_pc = "recv"
    /\ command_rx # << >>
    /\ command_rx' = Tail(command_rx)
    /\ LET cmd == Head(command_rx)
       IN  CASE cmd[1] = "Write" ->
                  /\ cmd_pc' = "write_lock"
                  /\ cur_cmd' = Some(cmd)
                  /\ UNCHANGED close_received
             [] cmd[1] = "Resize" ->
                  /\ cmd_pc' = "resize_lock"
                  /\ cur_cmd' = Some(cmd)
                  /\ UNCHANGED close_received
             [] cmd[1] = "Close" ->
                  /\ cmd_pc' = "exited"
                  /\ cur_cmd' = None
                  /\ close_received' = TRUE
    /\ UNCHANGED << main_pc, test_pc, inner_lock, published, child_alive,
                    sleep_elapsed, reader_taken, pty_size, pty_written,
                    n_reads, n_sent, last_resize >>
    /\ UNCHANGED engineVars
    /\ UNCHANGED readVars

\* PtyManager::write acquires inner and starts the blocking write
CmdWriteLock ==
    /\ cmd_pc = "write_lock"
    /\ inner_lock = "free"
    /\ inner_lock' = "cmd"
    /\ cmd_pc' = "writing"
    /\ UNCHANGED << main_pc, cur_cmd, test_pc, command_rx, published,
                    child_alive, sleep_elapsed, reader_taken, pty_size,
                    pty_written, n_reads, n_sent, last_resize, close_received >>
    /\ UNCHANGED engineVars
    /\ UNCHANGED readVars

\* the write returned Ok
CmdWriteDone ==
    /\ cmd_pc = "writing"
    /\ pty_written' = Append(pty_written, cur_cmd[1][2])
    /\ inner_lock' = "free"
    /\ cmd_pc' = "recv"
    /\ cur_cmd' = None
    /\ UNCHANGED << main_pc, test_pc, command_rx, published, child_alive,
                    sleep_elapsed, reader_taken, pty_size, n_reads, n_sent,
                    last_resize, close_received >>
    /\ UNCHANGED engineVars
    /\ UNCHANGED readVars

\* the write returned Err: break
CmdWriteErr ==
    /\ cmd_pc = "writing"
    /\ inner_lock' = "free"
    /\ cmd_pc' = "exited"
    /\ cur_cmd' = None
    /\ UNCHANGED << main_pc, test_pc, command_rx, published, child_alive,
                    sleep_elapsed, reader_taken, pty_size, pty_written,
                    n_reads, n_sent, last_resize, close_received >>
    /\ UNCHANGED engineVars
    /\ UNCHANGED readVars

\* Command::Resize(size): pty_writer.resize(size), nothing else
CmdResize ==
    /\ cmd_pc = "resize_lock"
    /\ inner_lock = "free"
    /\ pty_size' = cur_cmd[1][2]
    /\ last_resize' = Some(cur_cmd[1][2])
    /\ cmd_pc' = "recv"
    /\ cur_cmd' = None
    /\ UNCHANGED << main_pc, test_pc, inner_lock, command_rx, published,
                    child_alive, sleep_elapsed, reader_taken, pty_written,
                    n_reads, n_sent, close_received >>
    /\ UNCHANGED engineVars
    /\ UNCHANGED readVars

\* the task spawned inside run sends its next command
TestTaskSend ==
    /\ test_pc \in 0..(Len(TestCommands) - 1)
    /\ command_rx' = Append(command_rx, TestCommands[test_pc + 1])
    /\ test_pc' = test_pc + 1
    /\ UNCHANGED << main_pc, cmd_pc, cur_cmd, inner_lock, published,
                    child_alive, sleep_elapsed, reader_taken, pty_size,
                    pty_written, n_reads, n_sent, last_resize, close_received >>
    /\ UNCHANGED engineVars
    /\ UNCHANGED readVars

\* a client sends a command
ClientSend(cmd) ==
    /\ n_sent < MaxExtCmds
    /\ command_rx' = Append(command_rx, cmd)
    /\ n_sent' = n_sent + 1
    /\ UNCHANGED << main_pc, cmd_pc, cur_cmd, test_pc, inner_lock, published,
                    child_alive, sleep_elapsed, reader_taken, pty_size,
                    pty_written, n_reads, last_resize, close_received >>
    /\ UNCHANGED engineVars
    /\ UNCHANGED readVars

\* the shell process exits
ChildExits ==
    /\ child_alive
    /\ child_alive' = FALSE
    /\ UNCHANGED << main_pc, cmd_pc, cur_cmd, test_pc, inner_lock, command_rx,
                    published, sleep_elapsed, reader_taken, pty_size,
                    pty_written, n_reads, n_sent, last_resize, close_received >>
    /\ UNCHANGED engineVars
    /\ UNCHANGED readVars

(***************************************************************************)
(* The Ok(n) branch of the read, step by step: the read returns its bytes, *)
(* process_output parses them, applies the events one after the other and  *)
(* sends StateChanged, then run sends OutputReady.                         *)
(***************************************************************************)
\* what one read can return; an escape sequence may be split between reads
PtyChunks == { <<97>>, <<10>>, <<97, 10, 98>>, <<27, 91>>, <<50, 74>> }

\* pty.read returns Ok(n), n > 0, and gives the lock back
ReadOk(chunk) ==
    /\ main_pc = "reading"
    /\ ~reader_taken
    /\ n_reads < MaxReadCalls
    /\ read_data' = Some(chunk)
    /\ n_reads' = n_reads + 1
    /\ inner_lock' = "free"
    /\ main_pc' = "parse"
    /\ UNCHANGED << cmd_pc, cur_cmd, test_pc, command_rx, published,
                    child_alive, sleep_elapsed, reader_taken, pty_size,
                    pty_written, n_sent, last_resize, close_received, pending >>
    /\ UNCHANGED engineVars

\* let events = self.parser.parse(data)
Parse ==
    /\ main_pc = "parse"
    /\ LET r == parse(vp, read_data[1])
       IN  /\ pending' = r[1]
           /\ vp' = r[2]
    /\ main_pc' = "apply"
    /\ UNCHANGED << cmd_pc, cur_cmd, test_pc, inner_lock, command_rx,
                    published, child_alive, sleep_elapsed, reader_taken,
                    pty_size, pty_written, n_reads, n_sent, last_resize,
                    close_received, read_data >>
    /\ UNCHANGED << st, fed, emitted, alt_phase, primary_at_enable, alt_ops,
                    n_ops, prev, last_ev, saved_at >>

\* one turn of: for event in events { process_event(&mut self.state, event) }
ApplyEvent ==
    /\ main_pc = "apply"
    /\ pending # << >>
    /\ st' = process_event(st, Head(pending))
    /\ pending' = Tail(pending)
    /\ UNCHANGED << main_pc, cmd_pc, cur_cmd, test_pc, inner_lock, command_rx,
                    published, child_alive, sleep_elapsed, reader_taken,
                    pty_size, pty_written, n_reads, n_sent, last_resize,
                    close_received, read_data >>
    /\ UNCHANGED << vp, fed, emitted, alt_phase, primary_at_enable, alt_ops,
                    n_ops, prev, last_ev, saved_at >>

\* StateChanged sent while events of the read are still to be applied
SendStateChanged_early ==
    /\ main_pc = "apply"
    /\ published' = Append(published, <<"StateChanged", n_reads>>)
    /\ main_pc' = "publish"
    /\ UNCHANGED << cmd_pc, cur_cmd, test_pc, inner_lock, command_rx,
                    child_alive, sleep_elapsed, reader_taken, pty_size,
                    pty_written, n_reads, n_sent, last_resize, close_received,
                    readVars >>
    /\ UNCHANGED engineVars

\* the loop is over: process_output sends StateChanged and returns
SendStateChanged ==
    /\ main_pc = "apply"
    /\ pending = << >>
    /\ published' = Append(published, <<"StateChanged", n_reads>>)
    /\ main_pc' = "publish"
    /\ UNCHANGED << cmd_pc, cur_cmd, test_pc, inner_lock, command_rx,
                    child_alive, sleep_elapsed, reader_taken, pty_size,
                    pty_written, n_reads, n_sent, last_resize, close_received,
                    readVars >>
    /\ UNCHANGED engineVars

\* event_tx.send(Event::OutputReady(data.to_vec())); the next iteration
\* starts with a new sleep
SendOutputReady ==
    /\ main_pc = "publish"
    /\ published' = Append(published, <<"OutputReady", n_reads, read_data[1]>>)
    /\ read_data' = None
    /\ main_pc' = "select"
    /\ sleep_elapsed' = 0
    /\ UNCHANGED << cmd_pc, cur_cmd, test_pc, inner_lock, command_rx,
                    child_alive, reader_taken, pty_size, pty_written, n_reads,
                    n_sent, last_resize, close_received, pending >>
    /\ UNCHANGED engineVars

NextRead ==
    \/ InitialAliveCheck
    \/ ReadLock
    \/ \E chunk \in PtyChunks : ReadOk(chunk)
    \/ Parse
    \/ ApplyEvent
    \/ SendStateChanged
    \/ SendOutputReady

\* every step except a failing read
NextRunNoReadErr ==
    \/ InitialAliveCheck
    \/ ReadLock
    \/ \E chunk \in ReadChunks : ReadData(chunk)
    \/ ReadZero
    \/ Elapse
    \/ SleepFires
    \/ AliveCheck
    \/ Cleanup
    \/ Join
    \/ CmdRecv
    \/ CmdWriteLock
    \/ CmdWriteDone
    \/ CmdWriteErr
    \/ CmdResize
    \/ TestTaskSend
    \/ \E cmd \in ClientCommands : ClientSend(cmd)
    \/ ChildExits

NextRun ==
    \/ NextRunNoReadErr
    \/ ReadErr

\* every step of the runtime's tasks is taken once it stays possible; how
\* long a read takes, what clients send and when the child exits are free
RunFairness ==
    /\ WF_<< engineVars, coordVars >>(InitialAliveCheck)
    /\ WF_<< engineVars, coordVars >>(ReadLock)
    /\ WF_<< engineVars, coordVars >>(ReadZero)
    /\ WF_<< engineVars, coordVars >>(SleepFires)
    /\ WF_<< engineVars, coordVars >>(AliveCheck)
    /\ WF_<< engineVars, coordVars >>(Cleanup)
    /\ WF_<< engineVars, coordVars >>(Join)
    /\ WF_<< engineVars, coordVars >>(CmdRecv)
    /\ WF_<< engineVars, coordVars >>(CmdWriteLock)
    /\ WF_<< engineVars, coordVars >>(CmdWriteDone)
    /\ WF_<< engineVars, coordVars >>(CmdResize)
    /\ WF_<< engineVars, coordVars >>(TestTaskSend)

vars == << engineVars, coordVars >>

Init == InitEngine /\ InitCoord

SpecBytes == Init /\ [][NextBytes]_vars
SpecChunks == Init /\ [][NextChunks]_vars
SpecAlt == Init /\ [][NextAlt]_vars
SpecRun == Init /\ [][NextRun]_vars
SpecRunFair == Init /\ [][NextRunNoReadErr]_vars /\ RunFairness

\* a fresh terminal of any size, empty ones included
InitAnySize ==
    /\ \E size \in AllSizes : st = TerminalState_new(size)
    /\ InitHistory
    /\ InitCoord

SpecScreen == InitAnySize /\ [][NextScreen]_vars

\* a fresh terminal whose scrollback was built with a small capacity
InitCapacity ==
    /\ \E m \in Capacities :
          st = [TerminalState_new(InitSize) EXCEPT
                  !.scrollback_buffer = ScrollbackBuffer_new(m)]
    /\ InitHistory
    /\ InitCoord

SpecScrollback == InitCapacity /\ [][NextScrollback]_vars

\* a fresh terminal of any non-zero size
InitNonZero ==
    /\ \E size \in NonZeroSizes : st = TerminalState_new(size)
    /\ InitHistory
    /\ InitCoord

SpecWrap == InitNonZero /\ [][NextWrap]_vars
SpecAltBytes == Init /\ [][NextAltBytes]_vars
SpecCursor == InitNonZero /\ [][NextCursor]_vars
SpecRead == Init /\ [][NextRead]_vars
SpecEvents == InitNonZero /\ [][NextEvents]_vars
SpecSgr == Init /\ [][NextSgr]_vars

InitZero ==
    /\ \E size \in ZeroSizes : st = TerminalState_new(size)
    /\ InitHistory
    /\ InitCoord

SpecZero == InitZero /\ [][NextZero]_vars
SpecAltMode == InitNonZero /\ [][NextAltMode]_vars
SpecSlot == InitNonZero /\ [][NextSlot]_vars
SpecAltResize == InitNonZero /\ [][NextAltResize]_vars
SpecErase == InitNonZero /\ [][NextErase]_vars
SpecReset == InitNonZero /\ [][NextReset]_vars

InitTab ==
    /\ \E size \in TabSizes : st = TerminalState_new(size)
    /\ InitHistory
    /\ InitCoord

SpecTab == InitTab /\ [][NextTab]_vars
SpecMoves == InitNonZero /\ [][NextMoves]_vars

(***************************************************************************)
(* Claims.                                                                 *)
(***************************************************************************)
\* the events of one parse call on everything fed so far, by a fresh parser
Whole == parse(VteParser_new, fed)[1]

RECURSIVE Coalesce(_)
\* evs with every run of adjacent Text events merged into one Text event
Coalesce(evs) ==
    IF Len(evs) < 2 THEN evs
    ELSE LET h == Head(evs)
             rest == Coalesce(Tail(evs))
         IN  IF h[1] = "Text" /\ rest[1][1] = "Text"
             THEN << <<"Text", h[2] \o rest[1][2]>> >> \o Tail(rest)
             ELSE << h >> \o rest

\* C1 as stated: feeding the bytes one per parse call yields, concatenated,
\* exactly the event sequence of one parse call on the whole input.
C1_StreamingExact == emitted = Whole

\* C1 amended: feeding the bytes one per parse call yields the event sequence
\* of one parse call on the whole input once adjacent Text events are merged
\* on both sides (a call boundary may cut a run of printable characters into
\* several Text events, and changes nothing else).
C1_StreamingUpToTextSplits == Coalesce(emitted) = Coalesce(Whole)

\* C1 witness: an escape sequence split over calls was recognised and a
\* printable run was cut by the call boundaries.
C1_Witness ==
    /\ Len(emitted) > Len(Whole)
    /\ \E i \in 1..Len(emitted) : emitted[i][1] = "Csi"

\* C2: however the input was cut into chunks, the TerminalState equals the one
\* reached by parsing the whole input in one call and applying its events.
C2_ChunkingIndependent ==
    st = process_events(TerminalState_new(InitSize), Whole)

\* C2 witness: an input with an escape sequence and text that scrolled the
\* screen has been fed.
C2_Witness ==
    /\ \E i \in 1..Len(Whole) : Whole[i][1] \in {"Csi", "Esc"}
    /\ Len(st.scrollback_buffer.lines) > 0
    /\ st.screen_buffer # ScreenBuffer_new(InitSize)

\* C10: right after disable_alternate_screen the screen buffer equals, cell
\* for cell, the screen buffer as it was just before enable_alternate_screen,
\* whatever writes, erases and scrolls were applied in between.
C10_AltScreenRestoresPrimary ==
    alt_phase = "after" => st.screen_buffer = primary_at_enable[1]

\* C10 witness: a primary screen with content was restored after at least two
\* operations on the alternate screen, one of which scrolled.
C10_Witness ==
    /\ alt_phase = "after"
    /\ alt_ops >= 2
    /\ st.screen_buffer # ScreenBuffer_new(InitSize)
    /\ Len(st.scrollback_buffer.lines) > 0

Range(f) == { f[i] : i \in DOMAIN f }

\* C3 as stated: for every read that returned data, the OutputReady event
\* carrying its bytes is published no later than the StateChanged event that
\* arises from the same bytes; OutputReady never follows its StateChanged.
C3_OutputReadyNotAfterStateChanged ==
    \A i \in 1..Len(published) : \A j \in 1..Len(published) :
        ( /\ published[i][1] = "OutputReady"
          /\ published[j][1] = "StateChanged"
          /\ published[i][2] = published[j][2] )
        => i <= j

\* run is inside its main loop
Running == main_pc \in {"select", "reading", "alive_check"}

\* C4 as stated: on the runs where the child stays alive (and no read
\* fails), once Close has been received while the coordinator is in its
\* loop, the coordinator leaves the loop, publishes Closed and run returns.
C4_CloseLeadsToReturn ==
    ([]child_alive) =>
        ((close_received /\ Running)
            ~> (main_pc = "done" /\ <<"Closed">> \in Range(published)))

\* C5 as stated: once a Resize(size) command has been handled, the
\* TerminalState has that size, the PTY has that size, and a Resized(size)
\* event has been published.
C5_ResizeAppliedEverywhere ==
    last_resize # None =>
        /\ st.size = last_resize[1]
        /\ pty_size = last_resize[1]
        /\ <<"Resized", last_resize[1]>> \in Range(published)

\* C6 as stated: when run has ended on a read error, the last two published
\* events are an Error event and then Closed.
C6_ReadErrorPublishesErrorThenClosed ==
    main_pc = "err_read" =>
        /\ Len(published) >= 2
        /\ published[Len(published) - 1][1] = "Error"
        /\ published[Len(published)] = <<"Closed">>

\* C7 as stated: if the child has exited while the coordinator is in its
\* loop, the coordinator eventually leaves the loop and publishes Closed,
\* also when reads keep completing with 0 bytes.
C7_ChildExitLeadsToClosed ==
    (~child_alive /\ Running)
        ~> (<<"Closed">> \in Range(published))

\* C8: once Closed has been published no further event is published: Closed
\* occurs only as the last published event.
C8_ClosedIsLast ==
    \A i \in 1..Len(published) :
        published[i] = <<"Closed">> => i = Len(published)

\* C8 witness: run has returned after publishing Closed behind the events of
\* a read, with the command processor having written to the PTY.
C8_Witness ==
    /\ main_pc = "done"
    /\ <<"Closed">> \in Range(published)
    /\ Len(published) >= 3
    /\ pty_written # << >>

\* C9 as stated: a write issued by the command processor never waits for the
\* lock while the main loop's pending read holds it.
C9_WriteNeverWaitsForRead ==
    ~(cmd_pc = "write_lock" /\ inner_lock = "main" /\ main_pc = "reading")

\* C11 as stated: after ESC[?1049h, printable content and ESC[?1049l have
\* gone through the parser and the state engine, the screen equals the screen
\* just before the first sequence.
C11_Decset1049RestoresScreen ==
    alt_phase = "after" => st.screen_buffer = primary_at_enable[1]

\* C12 as stated: after L printable characters from (0,0) on an r x c screen
\* with LineWrap, the cursor is at (L / c, L % c) when L < r*c; otherwise
\* (L / (r*c)) * r rows have been scrolled and the cursor is on the last row.
C12_WrapAsStated ==
    LET L == n_ops
        r == st.size.rows
        c == st.size.cols
    IN  IF L < r * c
        THEN cursor_position(st) = Position_new(L \div c, L % c)
        ELSE /\ Len(st.scrollback_buffer.lines) = (L \div (r * c)) * r
             /\ cursor_position(st).row = r - 1

\* C12 amended: after L printable characters from (0,0) on an r x c screen
\* with LineWrap, the cursor is at (L / c, L % c) and nothing has been
\* scrolled when L < r*c; otherwise L / c - r + 1 rows have been scrolled (one
\* per wrap off the last row) and the cursor is at (r - 1, L % c).
C12_WrapScrollsOneRowPerWrap ==
    LET L == n_ops
        r == st.size.rows
        c == st.size.cols
    IN  IF L < r * c
        THEN /\ cursor_position(st) = Position_new(L \div c, L % c)
             /\ st.cursor.position = Position_new(L \div c, L % c)
             /\ Len(st.scrollback_buffer.lines) = 0
        ELSE /\ Len(st.scrollback_buffer.lines) = (L \div c) - r + 1
             /\ st.cursor.position = Position_new(r - 1, L % c)

\* C12 witness: on a 2 x 2 screen more characters than the screen holds have
\* been written and rows have been scrolled.
C12_Witness ==
    /\ st.size = Size_new(2, 2)
    /\ n_ops > 4
    /\ Len(st.scrollback_buffer.lines) >= 2
    /\ last_ev # None

\* C13 as stated: for every capacity max_lines (0 included) and every
\* sequence of pushes and scrolls, the scrollback holds at most max_lines
\* lines.
C13_ScrollbackWithinCapacity ==
    Len(st.scrollback_buffer.lines) <= st.scrollback_buffer.max_lines

\* C14 as stated: after any sequence of screen operations, also on a screen
\* with zero rows or zero columns, the screen buffer holds exactly size.rows
\* rows of exactly size.cols cells each.
C14_ShapeMatchesSize ==
    /\ Len(st.screen_buffer.lines) = st.size.rows
    /\ \A r \in 1..Len(st.screen_buffer.lines) :
          Len(st.screen_buffer.lines[r]) = st.size.cols

\* the positions of a screen of the given size
Positions(size) ==
    { Position_new(r, c) : r \in 0..(size.rows - 1), c \in 0..(size.cols - 1) }

\* the last operation was resize(s2): cells common to the old and the new
\* screen are unchanged and all other cells of the new screen are blank
ResizeKeepsCommonCells ==
    LET s1 == prev[1].size
        s2 == st.size
    IN  \A pos \in Positions(s2) :
            get_cell(st.screen_buffer, pos) =
                IF pos.row < s1.rows /\ pos.col < s1.cols
                THEN get_cell(prev[1].screen_buffer, pos)
                ELSE Cell_blank

IsResize == last_ev # None /\ last_ev[1][1] = "resize"

IsClear ==
    /\ last_ev # None
    /\ last_ev[1] \in { <<"Csi", "EraseDisplay", "All">>,
                        <<"Control", "FormFeed">> }

\* C16: after EraseDisplay(All) or FormFeed, in any state, every screen cell
\* is the default blank cell, and the cursor position and the scrollback are
\* as they were before.
C16_EraseAllBlanksScreenOnly ==
    IsClear =>
        /\ \A r \in 1..Len(st.screen_buffer.lines) :
              \A c \in 1..Len(st.screen_buffer.lines[r]) :
                  st.screen_buffer.lines[r][c] = Cell_blank
        /\ \A pos \in Positions(st.size) :
              get_cell(st.screen_buffer, pos) = Cell_new(32)
        /\ st.cursor.position = prev[1].cursor.position
        /\ st.scrollback_buffer = prev[1].scrollback_buffer

\* C16 witness: the clear acted on a screen with a written cell, with the
\* cursor away from home and a line in the scrollback.
C16_Witness ==
    /\ IsClear
    /\ \E pos \in Positions(st.size) :
          get_cell(prev[1].screen_buffer, pos) # Cell_blank
    /\ st.cursor.position # Position_new(0, 0)
    /\ Len(st.scrollback_buffer.lines) > 0

C18_ExposedCursorInsideScreen ==
    (st.size.rows > 0 /\ st.size.cols > 0) =>
        /\ cursor_position(st).row <= st.size.rows - 1
        /\ cursor_position(st).col <= st.size.cols - 1
        /\ snapshot(st).cursor.row <= st.size.rows - 1
        /\ snapshot(st).cursor.col <= st.size.cols - 1

\* the last operation was a NewLine applied with the cursor on the bottom row
NewLineOnBottomRow ==
    /\ last_ev = Some(<<"Control", "NewLine">>)
    /\ prev[1].cursor.position.row = prev[1].size.rows - 1

\* the last operation was the write of one printable character with the
\* cursor below the bottom row (a scroll is pending) and inside the columns
WriteBelowBottomRow ==
    /\ last_ev = Some(<<"Text", <<97>>>>)
    /\ prev[1].cursor.position.row >= prev[1].size.rows
    /\ prev[1].cursor.position.col < prev[1].size.cols

\* the screen and the scrollback are those of prev scrolled up by n rows,
\* but for the character just written, which is at row r of the old column
ScrolledBy(n, r) ==
    LET rows == st.size.rows
        col == prev[1].cursor.position.col
        old == prev[1].screen_buffer.lines
    IN  /\ Len(st.scrollback_buffer.lines) =
              Len(prev[1].scrollback_buffer.lines) + n
        /\ \A pos \in Positions(st.size) :
              get_cell(st.screen_buffer, pos) =
                 IF pos = Position_new(r, col)
                 THEN Cell_with_attrs(97, prev[1].active_attributes)
                 ELSE IF pos.row + n < rows
                      THEN old[pos.row + n + 1][pos.col + 1]
                      ELSE Cell_blank

\* C19 as stated: a NewLine on the bottom row changes no cell and adds
\* nothing to the scrollback; the next printable write scrolls exactly once
\* and is stored on the last row.
C19_DeferredScrollAsStated ==
    /\ NewLineOnBottomRow =>
          /\ st.screen_buffer = prev[1].screen_buffer
          /\ st.scrollback_buffer = prev[1].scrollback_buffer
    /\ WriteBelowBottomRow => ScrolledBy(1, st.size.rows - 1)

\* C19 amended: a NewLine on the bottom row changes no cell and adds nothing
\* to the scrollback, it only moves the cursor to the row below the screen;
\* the next printable write scrolls once and is stored on the last row when
\* it is left of the last column; in the last column the wrap that follows
\* the store scrolls a second time, so the character ends one row higher
\* (or in the scrollback on a one-row screen).
C19_DeferredScrollOnceUnlessWrap ==
    /\ NewLineOnBottomRow =>
          /\ st.screen_buffer = prev[1].screen_buffer
          /\ st.scrollback_buffer = prev[1].scrollback_buffer
          /\ st.cursor.position.row = st.size.rows
    /\ WriteBelowBottomRow =>
          IF prev[1].cursor.position.col < st.size.cols - 1
          THEN /\ ScrolledBy(1, st.size.rows - 1)
               /\ st.cursor.position.row = st.size.rows - 1
          ELSE /\ ScrolledBy(2, st.size.rows - 2)
               /\ st.cursor.position = Position_new(st.size.rows - 1, 0)

\* C19: a write left of the last column, below the bottom row of a screen
\* with two rows, that pushed the first line into an empty scrollback and
\* left the character on the last row
C19_Witness ==
    /\ WriteBelowBottomRow
    /\ st.size.rows = 2
    /\ prev[1].cursor.position.col < st.size.cols - 1
    /\ prev[1].scrollback_buffer.lines = << >>
    /\ Len(st.scrollback_buffer.lines) = 1
    /\ st.scrollback_buffer.lines[1] # BlankLine(st.size.cols)
    /\ get_cell(st.screen_buffer, Position_new(1, 0)).ch = 97
    /\ cursor_position(st).row = 1

\* the byte chunks carried by the OutputReady events published so far
OutputReadyChunks ==
    LET ready == SelectSeq(published, LAMBDA e : e[1] = "OutputReady")
    IN  AsVec([i \in 1..Len(ready) |-> ready[i][3]])

RECURSIVE ApplyReads(_, _, _)
\* process_output run on each chunk in turn: << state, parser >> at the end
ApplyReads(state, parser, chunks) ==
    IF chunks = << >> THEN << state, parser >>
    ELSE LET r == process_output(state, parser, Head(chunks))
         IN  ApplyReads(r[1], r[2], Tail(chunks))

\* C20: the state and the parser are those of the published reads alone from
\* the end of one read to the parse of the next; while a read is applied,
\* the events applied so far are a prefix, in order, of the events its bytes
\* parse to; when StateChanged and then OutputReady for the read are sent,
\* all of them are applied and none is left.
C20_ReadAppliedBeforeOutputReady ==
    LET base == ApplyReads(TerminalState_new(InitSize), VteParser_new,
                           OutputReadyChunks)
        full == IF read_data # None
                THEN process_output(base[1], base[2], read_data[1])
                ELSE << base[1], base[2], << >> >>
        events == full[3]
    IN  /\ main_pc \in {"start", "select", "reading"} =>
              /\ read_data = None /\ pending = << >>
              /\ st = base[1] /\ vp = base[2]
        /\ main_pc = "parse" =>
              /\ pending = << >>
              /\ st = base[1] /\ vp = base[2]
        /\ main_pc = "apply" =>
              /\ vp = full[2]
              /\ \E k \in 0..Len(events) :
                    /\ pending = SubSeq(events, k + 1, Len(events))
                    /\ st = process_events(base[1], SubSeq(events, 1, k))
        /\ main_pc = "publish" =>
              /\ pending = << >>
              /\ st = full[1] /\ vp = full[2]
              /\ published # << >>
              /\ published[Len(published)] = <<"StateChanged", n_reads>>
        /\ \A i \in 1..Len(published) :
              published[i][1] = "OutputReady" =>
                 /\ i > 1
                 /\ published[i - 1] = <<"StateChanged", published[i][2]>>

\* C20: two reads are published, the second of three events; the state shows
\* the writes of both in order (the line of a's wrapped and was scrolled out
\* by the b written after the line feed)
C20_Witness ==
    /\ main_pc = "select"
    /\ OutputReadyChunks = << <<97>>, <<97, 10, 98>> >>
    /\ Len(st.scrollback_buffer.lines) = 1
    /\ st.scrollback_buffer.lines[1][1].ch = 97
    /\ st.scrollback_buffer.lines[1][2].ch = 97
    /\ get_cell(st.screen_buffer, Position_new(1, 0)).ch = 98
    /\ st.cursor.position = Position_new(1, 1)

\* C21: once the processor has taken Close from the inbox, no step writes to
\* the PTY or resizes it any more.
C21_NothingAppliedAfterClose ==
    [][close_received =>
          /\ pty_written' = pty_written
          /\ pty_size' = pty_size
          /\ last_resize' = last_resize]_vars

\* C21: Close was taken after a write had reached the PTY, and a Write or a
\* Resize sent later sits in the inbox, never to be handled
C21_Witness ==
    /\ close_received
    /\ cmd_pc = "exited"
    /\ pty_written # << >>
    /\ \E i \in 1..Len(command_rx) : command_rx[i][1] \in {"Write", "Resize"}

\* the last operation pushed a line onto a scrollback that was full and not
\* empty: a direct push, or a scroll_up pushing the top line of the screen
PushOnFull ==
    /\ last_ev # None
    /\ last_ev[1][1] \in {"push", "scroll_up"}
    /\ Len(prev[1].scrollback_buffer.lines) >= prev[1].scrollback_buffer.max_lines
    /\ prev[1].scrollback_buffer.lines # << >>

\* the line the last operation pushed
PushedLine ==
    IF last_ev[1][1] = "push" THEN last_ev[1][2]
    ELSE Head(prev[1].screen_buffer.lines)

\* C22: a push onto a full scrollback removes exactly the oldest line and
\* keeps the others in order: get_line(i) is what get_line(i + 1) was, the
\* length is unchanged, and get_line(len - 1) is the line just pushed.
C22_PushEvictsOldest ==
    PushOnFull =>
        LET old == prev[1].scrollback_buffer
            new == st.scrollback_buffer
            len == Len(new.lines)
        IN  /\ len = Len(old.lines)
            /\ \A i \in 0..(len - 2) : get_line(new, i) = get_line(old, i + 1)
            /\ get_line(new, len - 1) = Some(PushedLine)
            /\ get_line(new, len) = None

\* C22: a scrollback of capacity 2 holding two different lines received a
\* third, different from both; the older of the two is gone
C22_Witness ==
    /\ PushOnFull
    /\ st.scrollback_buffer.max_lines = 2
    /\ Len(prev[1].scrollback_buffer.lines) = 2
    /\ get_line(prev[1].scrollback_buffer, 0) # get_line(prev[1].scrollback_buffer, 1)
    /\ Some(PushedLine) # get_line(prev[1].scrollback_buffer, 0)
    /\ Some(PushedLine) # get_line(prev[1].scrollback_buffer, 1)
    /\ get_line(st.scrollback_buffer, 0) = get_line(prev[1].scrollback_buffer, 1)
    /\ get_line(st.scrollback_buffer, 1) = Some(PushedLine)

\* C23 as stated: Backspace only decrements the cursor column, saturating
\* at 0; the cursor row, every screen cell and the scrollback are unchanged,
\* on every screen width.
C23_BackspaceOnlyMovesLeft ==
    (last_ev = Some(<<"Control", "Backspace">>)) =>
        /\ st.cursor.position.col =
              saturating_sub(prev[1].cursor.position.col, 1)
        /\ st.cursor.position.row = prev[1].cursor.position.row
        /\ st.screen_buffer = prev[1].screen_buffer
        /\ st.scrollback_buffer = prev[1].scrollback_buffer

\* C24 as stated: after SGR 22 neither Bold nor Dim is set in the active
\* attributes, and after SGR 25 neither slow blink nor fast blink is set.
C24_Sgr22ClearsBoldAndDim ==
    /\ (last_ev = Some(<<"csi_dispatch", <<22>>, 109>>)) =>
           st.active_attributes.flags \cap {"BOLD", "DIM"} = {}
    /\ (last_ev = Some(<<"csi_dispatch", <<25>>, 109>>)) =>
           st.active_attributes.flags \cap {"BLINK_SLOW", "BLINK_FAST"} = {}

\* the number of parameters of the run that starts with 38 or 48 at the head
\* of tail: three for selector 5, five for selector 2
RunLength(tail) == IF tail[2] = 5 THEN 3 ELSE 5

\* the parameters before the first 38 or 48 of pv
RECURSIVE BeforeRun(_)
BeforeRun(pv) ==
    IF pv = << >> \/ Head(pv) \in {38, 48} THEN << >>
    ELSE <<Head(pv)>> \o BeforeRun(Tail(pv))

\* C29 as stated: where the first 38 or 48 of a parameter list is followed by
\* selector 5 or 2, the list decodes to the codes before the run, then the one
\* colour of the run (nothing when the list ends inside the run), then the
\* codes after the run decoded on their own.
C29_RunParamsNeverDecodedAlone ==
    (last_ev # None /\ last_ev[1][1] = "csi_dispatch") =>
        LET pv == last_ev[1][2]
            pre == BeforeRun(pv)
            tail == SubSeq(pv, Len(pre) + 1, Len(pv))
        IN  (Len(tail) >= 2 /\ tail[2] \in {2, 5}) =>
                LET k == RunLength(tail)
                    run == IF Len(tail) >= k
                           THEN parse_sgr_params(SubSeq(tail, 1, k))
                           ELSE << >>
                IN  /\ Len(run) <= 1
                    /\ parse_sgr_params(pv) =
                          parse_sgr_params(pre) \o run
                          \o parse_sgr_params(SubSeq(tail, k + 1, Len(tail)))

\* the cell 'a' written with the attributes attrs
WrittenCell(attrs) == Cell_with_attrs(97, attrs)

\* the character written at position p of screen s is found after the write
\* in state t: in its cell, or, when the write in the bottom right corner
\* wrapped and scrolled the screen, one row higher (in the newest scrollback
\* line on a one-row screen)
WriteLanded(s, p, t) ==
    LET cell == WrittenCell(s.active_attributes)
        sb == t.scrollback_buffer.lines
    IN  \/ get_cell(t.screen_buffer, p) = cell
        \/ /\ p = Position_new(s.size.rows - 1, s.size.cols - 1)
           /\ IF s.size.rows >= 2
              THEN get_cell(t.screen_buffer, Position_new(p.row - 1, p.col)) = cell
              ELSE sb # << >> /\ sb[Len(sb)][p.col + 1] = cell

\* C25 as stated: after CUP with a row and a column larger than the screen the
\* cursor is at the clamped position (rows-1, cols-1), and a printable
\* character written next is stored in that cell.
C25_OversizedCupClamps ==
    [][/\ (last_ev' = Some(<<"Csi", "CursorPosition", 9, 9>>)) =>
              cursor_position(st') = Position_new(st.size.rows - 1, st.size.cols - 1)
       /\ (last_ev = Some(<<"Csi", "CursorPosition", 9, 9>>)
           /\ last_ev' = Some(<<"Text", <<97>>>>)) =>
              WriteLanded(st, cursor_position(st), st')]_vars

\* C26 as stated: on a non-zero-size screen the engine's internal cursor
\* satisfies col < cols and row <= rows after any sequence of newlines, CUD,
\* CUF, CNL, Index, NextLine and printable writes.
C26_InternalCursorBounded ==
    /\ st.cursor.position.col < st.size.cols
    /\ st.cursor.position.row <= st.size.rows

\* C27 as stated: an event other than a ScrollUp or a printable write leaves
\* the scrollback as it was.
C27_ScrollbackOnlyFromScrollUpAndWrites ==
    (last_ev # None
     /\ last_ev[1][1] # "Text"
     /\ last_ev[1] # <<"Csi", "ScrollUp", 1>>) =>
        st.scrollback_buffer = prev[1].scrollback_buffer

\* C28 as stated: Index with the cursor above the bottom row moves the cursor
\* down exactly one row and leaves every cell and the scrollback unchanged.
C28_IndexScrollsOnlyFromBottomRow ==
    (last_ev = Some(<<"Esc", "Index">>)
     /\ prev[1].cursor.position.row < prev[1].size.rows - 1) =>
        /\ st.cursor.position =
              Position_new(prev[1].cursor.position.row + 1,
                           prev[1].cursor.position.col)
        /\ st.screen_buffer = prev[1].screen_buffer
        /\ st.scrollback_buffer = prev[1].scrollback_buffer

\* the tab stops of s strictly greater than the cursor column
StopsAfter(s) ==
    { s.tab_stops[i] : i \in 1..Len(s.tab_stops) } \ (0 .. s.cursor.position.col)

\* C30 as stated: Tab moves the cursor to the smallest tab stop strictly
\* greater than the current column, or to column cols-1 when there is none;
\* the row and all cells are unchanged, and with default tab stops the cursor
\* does not end beyond column cols-1.
C30_TabToNextStopOrLastColumn ==
    (last_ev = Some(<<"Control", "Tab">>)) =>
        LET p == prev[1]
            after == StopsAfter(p)
        IN  /\ st.cursor.position.col =
                  IF after # {} THEN CHOOSE x \in after : \A y \in after : x <= y
                  ELSE p.size.cols - 1
            /\ st.cursor.position.row = p.cursor.position.row
            /\ st.screen_buffer = p.screen_buffer
            /\ (p.tab_stops = default_tab_stops(p.size.cols)) =>
                   st.cursor.position.col <= p.size.cols - 1

\* C31: after ESC c the state is the freshly constructed state of the current
\* size: cursor at (0,0), blank screen, default modes and active attributes,
\* default tab stops, empty scrollback, empty saved-cursor slot and no
\* alternate screen.
C31_ResetGivesFreshState ==
    (last_ev = Some(<<"Esc", "Reset">>)) =>
        /\ st = TerminalState_new(prev[1].size)
        /\ st.size = prev[1].size
        /\ st.cursor.position = Position_new(0, 0)
        /\ \A r \in 1..st.size.rows : \A c \in 1..st.size.cols :
              st.screen_buffer.lines[r][c] = Cell_blank
        /\ st.mode = TerminalMode_default
        /\ st.active_attributes = CellAttributes_default
        /\ st.tab_stops = default_tab_stops(st.size.cols)
        /\ st.scrollback_buffer.lines = << >>
        /\ st.saved_cursor = None
        /\ st.alternate_buffer = None

\* C31: ESC c was applied to a state with a line in the scrollback and a
\* written cell
C31_Witness ==
    /\ last_ev = Some(<<"Esc", "Reset">>)
    /\ prev[1].scrollback_buffer.lines # << >>
    /\ prev[1].screen_buffer # ScreenBuffer_new(prev[1].size)
    /\ st.scrollback_buffer.lines = << >>

\* position q is at or after position p in reading order
AtOrAfter(q, p) == q.row > p.row \/ (q.row = p.row /\ q.col >= p.col)

\* position q is at or before position p in reading order
AtOrBefore(q, p) == q.row < p.row \/ (q.row = p.row /\ q.col <= p.col)

\* C32: EraseDisplay(Below) blanks, with default attributes, exactly the cells
\* from the cursor to the end of the screen, and EraseDisplay(Above) exactly
\* the cells from the start of the screen up to and including the cursor; all
\* other cells, the cursor and the scrollback are unchanged.  The cursor is the
\* position cursor_position() reports.
C32_EraseBelowAboveExact ==
    (last_ev # None /\ last_ev[1] \in { <<"Csi", "EraseDisplay", "Below">>,
                                        <<"Csi", "EraseDisplay", "Above">> }) =>
        LET p == cursor_position(prev[1])
            below == last_ev[1][3] = "Below"
        IN  /\ \A q \in Positions(st.size) :
                  get_cell(st.screen_buffer, q) =
                     IF (below /\ AtOrAfter(q, p)) \/ (~below /\ AtOrBefore(q, p))
                     THEN Cell_blank
                     ELSE get_cell(prev[1].screen_buffer, q)
            /\ st.screen_buffer.size = prev[1].screen_buffer.size
            /\ st.cursor = prev[1].cursor
            /\ st.scrollback_buffer = prev[1].scrollback_buffer

\* C32: an erase with bold active blanked a written cell and kept another
\* written cell
C32_Witness ==
    /\ last_ev # None /\ last_ev[1][1] = "Csi" /\ last_ev[1][2] = "EraseDisplay"
    /\ "BOLD" \in st.active_attributes.flags
    /\ \E q \in Positions(st.size) :
          /\ get_cell(prev[1].screen_buffer, q).ch = 97
          /\ get_cell(st.screen_buffer, q) = Cell_blank
    /\ \E q \in Positions(st.size) : get_cell(st.screen_buffer, q).ch = 97

\* the events of one parse call, by a fresh parser, on the first k bytes fed
WholeOf(k) == parse(VteParser_new, SubSeq(fed, 1, k))[1]

IsPrefix(s, t) == Len(s) <= Len(t) /\ SubSeq(t, 1, Len(s)) = s

\* w2 continues w: every event of w keeps its place, except that a Text event
\* at the end of w may have received more characters
ExtendsUpToLastText(w, w2) ==
    \/ IsPrefix(w, w2)
    \/ /\ w # << >>
       /\ w[Len(w)][1] = "Text"
       /\ Len(w2) >= Len(w)
       /\ SubSeq(w2, 1, Len(w) - 1) = SubSeq(w, 1, Len(w) - 1)
       /\ w2[Len(w)][1] = "Text"
       /\ IsPrefix(w[Len(w)][2], w2[Len(w)][2])

\* the events are in input order: a longer input only adds events at the end
\* and characters to a final Text, so a printable run is out, as Text, before
\* any event that follows it
EventsInInputOrder ==
    \A k \in 1..Len(fed) : ExtendsUpToLastText(WholeOf(k - 1), WholeOf(k))

AdjacentTexts(evs) ==
    { i \in 1..(Len(evs) - 1) : evs[i][1] = "Text" /\ evs[i + 1][1] = "Text" }

NonText(evs) == { i \in 1..Len(evs) : evs[i][1] # "Text" }

\* byte i of the input ended a control or a sequence for which the performer
\* pushed no event (it only flushed the pending text)
SilentAt(i) ==
    LET a == advance_all(VteParser_new, SubSeq(fed, 1, i - 1))
        b == advance(a, fed[i])
    IN  /\ b.parser.state = "Ground"
        /\ b.performer.current_text = << >>
        /\ Cardinality(NonText(b.performer.events)) =
              Cardinality(NonText(a.performer.events))

\* C33 as stated: within one parse call the events are in input order, each
\* printable run is one Text event emitted before the following non-text
\* event, and no two Text events are adjacent.
C33_TextCoalescedAsStated ==
    /\ EventsInInputOrder
    /\ AdjacentTexts(Whole) = {}

\* C33 amended: within one parse call the events are in input order and each
\* printable run is emitted as one non-empty Text event before whatever
\* follows it; two Text events are adjacent only where the input held, between
\* them, a control or sequence that yields no event.
C33_TextCoalescedBetweenCallbacks ==
    /\ EventsInInputOrder
    /\ \A i \in 1..Len(Whole) : Whole[i][1] = "Text" => Whole[i][2] # << >>
    /\ Cardinality(AdjacentTexts(Whole)) <=
          Cardinality({ i \in 1..Len(fed) : SilentAt(i) })

\* C33 witness: one call gave two adjacent Text events and then a non-text
\* event
C33_Witness ==
    /\ Len(Whole) >= 3
    /\ 1 \in AdjacentTexts(Whole)
    /\ Whole[3][1] = "Control"

\* C34 as stated: every byte string written to the PTY and every PTY resize
\* comes from a Write or Resize command sent by a client; run itself
\* originates no command.
C34_PtyInputOnlyFromClients ==
    /\ \A i \in 1..Len(pty_written) :
          <<"Write", pty_written[i]>> \in ClientCommands
    /\ last_resize # None => <<"Resize", last_resize[1]>> \in ClientCommands
    /\ Len(pty_written) + (IF last_resize = None THEN 0 ELSE 1) <= n_sent

\* C35 as stated: once the main loop has been left because the child died and
\* run waits for the command processor, run returns, whatever clients do or
\* do not send afterwards.
C35_RunReturnsAfterChildDeath ==
    (main_pc = "join" /\ ~child_alive) ~> (main_pc = "done")

\* C36 as stated: when the liveness tick wins the select while a PTY read is
\* in flight, the PTY reader stays with the terminal, so that a later read
\* still reads from the PTY.
C36_CancelledReadKeepsReader ==
    [][(main_pc = "reading" /\ main_pc' = "alive_check") => ~reader_taken']_vars

\* C37 as stated: after any sequence of events and resizes, also a resize on
\* the alternate screen followed by leaving it, the active screen buffer has
\* the dimensions of size().
C37_ActiveBufferHasTerminalSize ==
    /\ st.screen_buffer.size = st.size
    /\ Len(st.screen_buffer.lines) = st.size.rows
    /\ \A r \in 1..Len(st.screen_buffer.lines) :
          Len(st.screen_buffer.lines[r]) = st.size.cols

\* C38 as stated: after a save_cursor, every later restore_cursor with no save
\* or reset in between puts the cursor on the saved position, the second and
\* later restores as well as the first.
C38_EveryRestoreReturnsToSaved ==
    (last_ev # None /\ IsRestore(last_ev[1]) /\ saved_at # None) =>
        st.cursor.position = saved_at[1]

\* C39: the AlternateScreen mode bit is set exactly when a saved primary
\* buffer is held, so snapshot().alternate_screen_active equals
\* mode().contains(ALTERNATE_SCREEN); enabling the alternate screen when it is
\* active and disabling it when it is inactive change nothing.
C39_AltBitMatchesSavedBuffer ==
    /\ ("ALTERNATE_SCREEN" \in st.mode) <=> (st.alternate_buffer # None)
    /\ snapshot(st).alternate_screen_active =
          ("ALTERNATE_SCREEN" \in snapshot(st).mode)
    /\ (last_ev = Some(<<"Csi", "SetMode", << "AlternateScreen" >> >>)
        /\ prev[1].alternate_buffer # None) => st = prev[1]
    /\ (last_ev = Some(<<"Csi", "ResetMode", << "AlternateScreen" >> >>)
        /\ prev[1].alternate_buffer = None) => st = prev[1]

\* C39: the alternate screen, holding a written cell, was enabled a second
\* time
C39_Witness ==
    /\ last_ev = Some(<<"Csi", "SetMode", << "AlternateScreen" >> >>)
    /\ prev[1].alternate_buffer # None
    /\ prev[1].screen_buffer # ScreenBuffer_new(prev[1].size)
    /\ "ALTERNATE_SCREEN" \in st.mode

\* the u16 subtraction that the handler of ev evaluates in state s (cols - 1
\* in tab, rows - 1 in Index) does not give the mathematical difference
Underflows(s, ev) ==
    \/ /\ ev = <<"Control", "Tab">>
       /\ wrapping_sub(s.size.cols, 1) # s.size.cols - 1
    \/ /\ ev = <<"Esc", "Index">>
       /\ wrapping_sub(s.size.rows, 1) # s.size.rows - 1

\* C40 as stated: on a terminal with rows == 0 or cols == 0 no event makes
\* the engine compute cols-1 or rows-1 below zero, and a printable write
\* leaves the state unchanged.
C40_NoUnderflowOnZeroSize ==
    (last_ev # None /\ (prev[1].size.rows = 0 \/ prev[1].size.cols = 0)) =>
        /\ ~Underflows(prev[1], last_ev[1])
        /\ st.cursor.position.col < U16Max
        /\ (last_ev[1][1] = "Text") => st = prev[1]

=============================================================================
